---- MODULE Spec2Model ----
(***************************************************************************)
(* A model of the PDF engine of pdftools (PDFTools.merge, PDFTools.split,  *)
(* PDFTools.compress, PDFTools._parseRangePart) and of app.process, the    *)
(* caller that hands the engine the selected files and downloads what it   *)
(* returns.                                                                *)
(*                                                                         *)
(* A PDF document is the sequence of its pages; a page is a record naming  *)
(* the source it was copied from (src, the 1-based position of the file in *)
(* the list; 0 for a page the engine creates), its 1-based position in     *)
(* that source (idx), and the text stamps drawn on it.  <<src, idx>> is    *)
(* the identity (the ref) of a page.  Text is a sequence of one-character  *)
(* strings, so that the string operations of the code (split, trim,        *)
(* includes, Number) are computed character by character.                  *)
(*                                                                         *)
(* Further specifications follow the page and the service worker: the     *)
(* handlers of the file list (SpecList), a merge while the list is edited *)
(* (SpecInFlight), the progress timers of process (SpecProgress), the     *)
(* lines of the TOC page (SpecToc), and the install, activate and fetch   *)
(* listeners of service-worker.js (SpecWorker).                           *)
(***************************************************************************)
EXTENDS Integers, Sequences, FiniteSets, TLC

VARIABLES
    currentTool,          \* app.currentTool
    selectedFiles,        \* app.selectedFiles, the files handed to the engine
    content,              \* the structures of the document in the first file
    options,              \* the option set of merge
    range,                \* the range expression of split
    compressOptions,      \* the option set of compress
    viaApp,               \* TRUE when the engine was called by app.process
    pc,                   \* the position of the running call
    k,                    \* the index of the loop the call is in
    mergedPdf,            \* merge: the pages of the destination document
    tocEntries,           \* merge: the recorded {title, pageIndex} entries
    totalPagesProcessed,  \* merge: the counter of copied pages
    tocText,              \* merge: the entry lines drawn on the TOC page
    tocAnnots,            \* merge: the link annotations of the TOC page
    pageCount,            \* split: srcPdf.getPageCount()
    parts,                \* split: the trimmed, non-empty parts of the range
    blobs,                \* split: the outputs built so far
    pdfDoc,               \* compress: the loaded document
    result,               \* the outcome of the PDFTools call
    resultBlob,           \* app.process: the blob to hand to showSuccess
    fileName,             \* app.process: the download name
    view,                 \* which overlay is visible
    downloadBlob,         \* app.downloadBlob
    downloads,            \* the files the browser was told to download
    calls,                \* the invocations of PDFTools that run side by side
    filesAtStart,         \* the value of app.selectedFiles when process started
    draggedIndex,         \* app.draggedIndex
    dropTargetIndex,      \* app.dropTargetIndex
    hovered,              \* where the pointer of a drag is: the target of its last dragover
    dropListeners,        \* the number of drop listeners of the file list element
    backupFiles,          \* the backupFiles of the Undo button on the page, if there is one
    progressInterval,     \* app.progressInterval
    intervals,            \* the running setInterval timers, each with its progress
    bar,                  \* the percent the processing bar shows
    runs,                 \* the calls of process that were started
    tocDrawn,             \* merge: the entries of the TOC page drawn so far
    worker,               \* the state of the service worker
    cacheKeys,            \* the names of the caches there are: caches.keys()
    cached,               \* the requests each cache has a response for
    fetches               \* the fetch events the service worker was sent

vars == << currentTool, selectedFiles, content, options, range, compressOptions, viaApp,
           pc, k, mergedPdf, tocEntries, totalPagesProcessed, tocText, tocAnnots,
           pageCount, parts, blobs, pdfDoc, result, resultBlob, fileName, view,
           downloadBlob, downloads, calls, filesAtStart, draggedIndex,
           dropTargetIndex, hovered, dropListeners, backupFiles, progressInterval,
           intervals, bar, runs, tocDrawn, worker, cacheKeys, cached, fetches >>

\* The state of a drag of a thumb.
dragVars == << draggedIndex, dropTargetIndex, hovered >>

\* The state of the simulated progress.
progressVars == << progressInterval, intervals, bar, runs >>

\* The state of the service worker and of the cache storage.
workerVars == << worker, cacheKeys, cached, fetches >>

\* The state of the page outside a call of process and of PDFTools.
aside == << dragVars, dropListeners, backupFiles, progressVars, tocDrawn, workerVars >>

----------------------------------------------------------------------------
(* Bounds of the model. *)

MaxFiles == 3        \* the longest list of sources of a merge
MaxPages == 3        \* the largest page count of a source
MaxRangeLen == 3     \* the longest enumerated range expression
MaxTime == 2         \* the latest time of the clock

----------------------------------------------------------------------------
(* Text. *)

Digits == {"0", "1", "2", "3", "4", "5", "6", "7", "8", "9"}

\* The characters the enumerated range expressions are written with: some
\* digits, the two separators of the grammar, white space, the decimal point
\* and a letter that is part of no numeric literal.
Alphabet == {"0", "1", "2", "-", ",", " ", ".", "a"}

Contains(s, c) == \E i \in 1..Len(s) : s[i] = c

FirstIndex(s, c) == CHOOSE i \in 1..Len(s) : s[i] = c /\ \A j \in 1..(i-1) : s[j] # c

RECURSIVE TrimStart(_)
TrimStart(s) == IF s # <<>> /\ Head(s) = " " THEN TrimStart(Tail(s)) ELSE s

RECURSIVE TrimEnd(_)
TrimEnd(s) ==
    IF s # <<>> /\ s[Len(s)] = " " THEN TrimEnd(SubSeq(s, 1, Len(s) - 1)) ELSE s

\* String.prototype.trim
Trim(s) == TrimEnd(TrimStart(s))

\* String.prototype.split(c): the pieces between the occurrences of c; a
\* text without c is its own single piece (also the empty text).
RECURSIVE StrSplit(_, _)
StrSplit(s, c) ==
    IF ~Contains(s, c) THEN << s >>
    ELSE LET i == FirstIndex(s, c)
         IN  << SubSeq(s, 1, i - 1) >> \o StrSplit(SubSeq(s, i + 1, Len(s)), c)

IsDigits(s) == \A i \in 1..Len(s) : s[i] \in Digits

DigitVal(c) ==
    CASE c = "0" -> 0 [] c = "1" -> 1 [] c = "2" -> 2 [] c = "3" -> 3
      [] c = "4" -> 4 [] c = "5" -> 5 [] c = "6" -> 6 [] c = "7" -> 7
      [] c = "8" -> 8 [] c = "9" -> 9

RECURSIVE DecVal(_)
DecVal(s) == IF s = <<>> THEN 0
             ELSE 10 * DecVal(SubSeq(s, 1, Len(s) - 1)) + DigitVal(s[Len(s)])

RECURSIVE Pow10(_)
Pow10(n) == IF n = 0 THEN 1 ELSE 10 * Pow10(n - 1)

\* A number is NaN or the rational n/d, d a power of ten; Norm cancels the
\* common factors of ten, so that a number is an integer exactly when d = 1.
NaN == [nan |-> TRUE, n |-> 0, d |-> 1]

RECURSIVE Norm(_, _)
Norm(n, d) == IF d > 1 /\ n % 10 = 0 THEN Norm(n \div 10, d \div 10)
              ELSE [nan |-> FALSE, n |-> n, d |-> d]

IsInteger(x) == ~x.nan /\ x.d = 1

\* Number(text) on a text of digits, points, blanks and letters: white space
\* is trimmed, the empty text is 0, an unsigned decimal literal (digits,
\* digits.digits, digits. or .digits) is its value, anything else is NaN.
Number(s) ==
    LET t == Trim(s) IN
    IF t = <<>> THEN Norm(0, 1)
    ELSE IF ~Contains(t, ".")
         THEN IF IsDigits(t) THEN Norm(DecVal(t), 1) ELSE NaN
         ELSE LET i  == FirstIndex(t, ".")
                  ip == SubSeq(t, 1, i - 1)
                  fp == SubSeq(t, i + 1, Len(t))
              IN  IF IsDigits(ip) /\ IsDigits(fp) /\ (ip # <<>> \/ fp # <<>>)
                  THEN Norm(DecVal(ip) * Pow10(Len(fp)) + DecVal(fp), Pow10(Len(fp)))
                  ELSE NaN

----------------------------------------------------------------------------
(* PDFTools._parseRangePart *)

\* a <= b on numbers that are not NaN
Leq(a, b) == a.n * b.d <= b.n * a.d

\* start + j, for a number start
Plus(start, j) == [nan |-> FALSE, n |-> start.n + j * start.d, d |-> start.d]

\* for (let i = start; i <= end; i++) if (i >= 1 && i <= totalPages)
\* pages.push(i - 1): the values pushed, in the order of the loop.  The
\* loop runs on i = start + j, j = 0, 1, ...; as start >= 0, only a j of
\* 0..totalPages has i <= totalPages, and the j that push are consecutive.
Pushed(start, end, totalPages) ==
    LET js == { j \in 0..totalPages :
                  /\ Leq(Plus(start, j), end)
                  /\ Plus(start, j).n >= start.d
                  /\ Plus(start, j).n <= totalPages * start.d }
        lo == IF js = {} THEN 0 ELSE CHOOSE j \in js : \A x \in js : j <= x
    IN  [ m \in 1..Cardinality(js) |->
            Norm(Plus(start, lo + m - 1).n - start.d, start.d) ]

\* The loop of a span whose ends are swapped when start > end.
RangeLoopSwapping(start, end, totalPages) ==
    IF start.nan \/ end.nan THEN <<>>
    ELSE IF Leq(start, end) THEN Pushed(start, end, totalPages)
         ELSE Pushed(end, start, totalPages)

\* The loop of a span: a comparison with NaN is false, so that a NaN end of
\* the span pushes nothing.
RangeLoop(start, end, totalPages) ==
    IF start.nan \/ end.nan THEN <<>> ELSE Pushed(start, end, totalPages)

\* The single page number pushed as it is, 1-based.
SinglePageOneBased(p, totalPages) ==
    IF ~p.nan /\ p.n >= p.d /\ p.n <= totalPages * p.d
    THEN << Norm(p.n, p.d) >>
    ELSE <<>>

\* if (p >= 1 && p <= totalPages) pages.push(p - 1)
SinglePage(p, totalPages) ==
    IF ~p.nan /\ p.n >= p.d /\ p.n <= totalPages * p.d
    THEN << Norm(p.n - p.d, p.d) >>
    ELSE <<>>

_parseRangePart(part, totalPages) ==
    IF Contains(part, "-")
    THEN LET se == StrSplit(part, "-")
         IN  RangeLoop(Number(se[1]), Number(se[2]), totalPages)
    ELSE SinglePage(Number(part), totalPages)

----------------------------------------------------------------------------
(* Documents, files and blobs. *)

NoStamp == <<>>

\* A page as copyPages or insertPage creates it: no stamp yet.
Page(src, idx) ==
    [src |-> src, idx |-> idx, filename |-> NoStamp, orig |-> NoStamp, final |-> NoStamp]

\* page.ref
Ref(page) == << page.src, page.idx >>

\* What a saved PDF holds: its pages and, for the TOC page of a merge, the
\* entry lines and the link annotations.
Doc(pages, text, annots) == [pages |-> pages, tocText |-> text, annots |-> annots]

\* The page save() adds to a document without pages, unless it is called
\* with addDefaultPage: false.
DefaultPage == Page(0, 1)

\* The pages of the bytes doc.save({addDefaultPage}) writes; save() alone
\* has addDefaultPage true.
Save(pages, addDefaultPage) ==
    IF addDefaultPage /\ pages = <<>> THEN << DefaultPage >> ELSE pages

\* The name of the file at position i of the list.
NameAt(i) ==
    CASE i = 1 -> "A.pdf" [] i = 2 -> "B.pdf" [] i = 3 -> "C.pdf" [] i = 4 -> "D.pdf"
      [] OTHER -> "E.pdf"

\* A File: its name, whether PDFDocument.load accepts its bytes, and the
\* page count of the document in it.  handleFiles sets displayName to name.
File(name, ok, n) == [name |-> name, displayName |-> name, ok |-> ok, pages |-> n]

\* The files that can stand at position i: a loadable document of 0 to
\* MaxPages pages, or bytes that do not load.
FilesAt(i) == { File(NameAt(i), TRUE, n) : n \in 0..MaxPages } \cup { File(NameAt(i), FALSE, 0) }

RECURSIVE ListsOfLength(_)
ListsOfLength(n) ==
    IF n = 0 THEN { <<>> }
    ELSE { Append(fs, f) : fs \in ListsOfLength(n - 1), f \in FilesAt(n) }

FileLists == UNION { ListsOfLength(n) : n \in 0..MaxFiles }

MergeOptions == [toc : BOOLEAN, filename : BOOLEAN, origPages : BOOLEAN, finalPages : BOOLEAN]

NoOptions == [toc |-> FALSE, filename |-> FALSE, origPages |-> FALSE, finalPages |-> FALSE]

\* The range expression: absent (undefined), or a text.
NoRange == [present |-> FALSE, text |-> <<>>]

RangeOf(text) == [present |-> TRUE, text |-> text]

\* The range expressions of the specification's examples and of the
\* comment of split, beside every text of at most MaxRangeLen characters.
ExampleRanges ==
    { << "1", "-", "5", ",", " ", "1", ",", " ", "3" >>,
      << "1", "-", "3", ",", "5" >>,
      << "0", ",", "1", "1" >> }

Ranges == { NoRange }
            \cup { RangeOf(t) : t \in UNION { [1..n -> Alphabet] : n \in 0..MaxRangeLen } }
            \cup { RangeOf(t) : t \in ExampleRanges }

\* The page counts of the sources of split: the small ones, and the ten
\* pages of the specification's examples.
SplitPageCounts == (0..MaxPages) \cup {5, 10}

Pending == [status |-> "pending", blobs |-> <<>>]

Resolved(docs) == [status |-> "resolved", blobs |-> docs]

Rejected == [status |-> "rejected", blobs |-> <<>>]

Undefined == [kind |-> "undefined", docs |-> <<>>]

PdfBlob(doc) == [kind |-> "pdf", docs |-> << doc >>]

ZipBlob(docs) == [kind |-> "zip", docs |-> docs]

\* let fileName = 'processed.pdf'
DefaultName == [prefix |-> "", name |-> "processed.pdf", suffix |-> ""]

----------------------------------------------------------------------------
(* The state after construction: the tool, the files and the options are   *)
(* chosen, no call is running.                                             *)

CompressOptions ==
    [stripMetadata : BOOLEAN, removeAnnotations : BOOLEAN, flatten : BOOLEAN,
     removeBookmarks : BOOLEAN, removeAttachments : BOOLEAN]

NoCompressOptions ==
    [stripMetadata |-> FALSE, removeAnnotations |-> FALSE, flatten |-> FALSE,
     removeBookmarks |-> FALSE, removeAttachments |-> FALSE]

\* A date of the Info dictionary: absent, or a time.  Time 0 is the epoch
\* of new Date(0); the files and the clock of the model have later times.
NoDate == [set |-> FALSE, t |-> 0]

Date(t) == [set |-> TRUE, t |-> t]

\* new Date(0)
Epoch == Date(0)

\* The values of new Date() when a document is loaded.
Times == 1..MaxTime

\* The Info metadata: info stands for Title, Author, Subject and Keywords
\* ("none" absent, "set" as the author of the file wrote them, "empty"
\* cleared); producer and creator are absent, as written, "pdf-lib" or
\* empty; created and modified are the two dates.
Meta(info, producer, creator, created, modified) ==
    [info |-> info, producer |-> producer, creator |-> creator,
     created |-> created, modified |-> modified]

NoMeta == Meta("none", "none", "none", NoDate, NoDate)

SetMeta == Meta("set", "set", "set", Date(1), Date(1))

\* The structures of a loaded document compress looks at: the Info
\* metadata, the pages that carry an Annots entry, the form, the catalog's
\* Outlines entry, its Names entry (absent, a dictionary with or without
\* EmbeddedFiles, or an indirect reference to such a dictionary) and its AF
\* entry; objStm tells whether the file was written with object streams.
Structure(n, meta, annots, form, outlines, names, af) ==
    [pages |-> n, meta |-> meta, annots |-> annots, form |-> form,
     outlines |-> outlines, names |-> names, af |-> af, objStm |-> FALSE]

NoDoc == Structure(0, NoMeta, {}, "none", FALSE, "none", FALSE)

\* The documents of n pages compress is tried on.
Structures(n) ==
    { Structure(n, meta, annots, form, outlines, names, af) :
        meta \in {NoMeta, SetMeta}, annots \in {{}, 1..n},
        form \in {"none", "fields", "corrupt"}, outlines \in BOOLEAN,
        names \in {"none", "dict", "dictEF", "refEF"}, af \in BOOLEAN }

\* null, the value of draggedIndex and dropTargetIndex outside a drag and
\* of progressInterval before the first call of process.  Positions in the
\* list and timer handles are counted from 1.
Null == 0

\* The height of the page insertPage(0) creates, in hundredths of a point:
\* 841.89, the height of A4, the page size of a page made without one.
PageHeight == 84189

\* No entry to draw on a TOC page: the number of entries, the index of
\* the entry forEach is at and the yPos of the entry drawn last.
NoToc == [entries |-> 0, idx |-> 0, yPos |-> PageHeight]

\* No service worker is registered and the origin has no cache.
NoWorker ==
    /\ worker = "none"
    /\ cacheKeys = {}
    /\ cached = {}
    /\ fetches = <<>>

\* The pointer is on no drop target.
Nowhere == [on |-> "none", index |-> Null, isBeforeMiddle |-> FALSE]

\* updateUI(): in the merge tool it adds one more drop listener to the file
\* list element, which stays on the page.
Listeners(tool, n) == IF tool = "merge" THEN n + 1 ELSE n

Idle ==
    /\ viaApp = FALSE
    /\ pc = "idle"
    /\ k = 1
    /\ mergedPdf = <<>>
    /\ tocEntries = <<>>
    /\ totalPagesProcessed = 0
    /\ tocText = <<>>
    /\ tocAnnots = <<>>
    /\ pageCount = 0
    /\ parts = <<>>
    /\ blobs = <<>>
    /\ pdfDoc = NoDoc
    /\ result = Pending
    /\ resultBlob = Undefined
    /\ fileName = DefaultName
    /\ view = "none"
    /\ downloadBlob = Undefined
    /\ downloads = <<>>
    /\ filesAtStart = <<>>
    /\ draggedIndex = Null
    /\ dropTargetIndex = Null
    /\ hovered = Nowhere
    /\ backupFiles = <<>>
    /\ progressInterval = Null
    /\ intervals = <<>>
    /\ bar = 0
    /\ runs = <<>>

InitMerge ==
    /\ currentTool = "merge"
    /\ selectedFiles \in FileLists
    /\ content = NoDoc
    /\ options \in MergeOptions
    /\ range = NoRange
    /\ compressOptions = NoCompressOptions

InitSplit ==
    /\ currentTool = "split"
    /\ selectedFiles \in { << File("A.pdf", TRUE, n) >> : n \in SplitPageCounts }
                            \cup { << File("A.pdf", FALSE, 0) >>, <<>> }
    /\ content = NoDoc
    /\ options = NoOptions
    /\ range \in Ranges
    /\ compressOptions = NoCompressOptions

InitCompress ==
    /\ currentTool = "compress"
    /\ selectedFiles \in { << f >> : f \in FilesAt(1) } \cup { <<>> }
    /\ content \in IF selectedFiles # <<>> /\ selectedFiles[1].ok
                   THEN Structures(selectedFiles[1].pages)
                   ELSE { NoDoc }
    /\ options = NoOptions
    /\ range = NoRange
    /\ compressOptions \in CompressOptions

Init ==
    /\ Idle
    /\ calls = <<>>
    /\ InitMerge \/ InitSplit \/ InitCompress
    /\ dropListeners = Listeners(currentTool, 0)
    /\ tocDrawn = NoToc
    /\ NoWorker

----------------------------------------------------------------------------
(* PDFTools.merge *)

\* const startPageIndex = options.toc ? totalPagesProcessed + 1 : totalPagesProcessed
StartPageIndex(toc, total) == IF toc THEN total + 1 ELSE total

\* The original page number drawn with the 0-based index of forEach.
StampCopiedZeroBased(page, file, i, n, opts) ==
    [page EXCEPT !.filename = IF opts.filename THEN << file.name >> ELSE NoStamp,
                 !.orig = IF opts.origPages THEN << i - 1, n >> ELSE NoStamp]

\* The stamps drawn on the page copied from position i (1-based) of a
\* file with n pages, before it is added to the destination.
StampCopied(page, file, i, n, opts) ==
    [page EXCEPT !.filename = IF opts.filename THEN << file.name >> ELSE NoStamp,
                 !.orig = IF opts.origPages THEN << i, n >> ELSE NoStamp]

\* copyPages(pdf, pdf.getPageIndices()) and the forEach on the copies
CopiedPages(j, file, opts) ==
    [ i \in 1..file.pages |-> StampCopied(Page(j, i), file, i, file.pages, opts) ]

\* The final page number drawn with the 0-based index of the page.
FinalStampZeroBased(i, total) == << i, total >>

\* page.drawText(`Page ${i + 1} of ${totalPagesProcessed}`) on the page at
\* index i (0-based) of mergedPdf.getPages()
FinalStamp(i, total) == << i + 1, total >>

\* The page insertPage(0) creates.
TocPage == Page(0, 0)

\* `${entry.title} (Page ${entry.pageIndex + 1})`
TocLine(entry) == [title |-> entry.title, page |-> entry.pageIndex + 1]

\* mergedPdf.getPages()[entry.pageIndex] is undefined past the last page,
\* and reading .ref of it throws.
DestDefined(pages, entry) == entry.pageIndex + 1 <= Len(pages)

\* Dest: [mergedPdf.getPages()[entry.pageIndex].ref, 'XYZ', null, null, null]
LinkAnnotation(pages, entry) == [subtype |-> "Link", dest |-> Ref(pages[entry.pageIndex + 1])]

\* The turn of the loop with a file that does not load skipped.
mergeFileSkipping ==
    /\ pc = "merge"
    /\ k <= Len(selectedFiles)
    /\ LET file == selectedFiles[k] IN
       IF ~file.ok
       THEN /\ k' = k + 1
            /\ UNCHANGED << pc, result, mergedPdf, tocEntries, totalPagesProcessed >>
       ELSE /\ tocEntries' = Append(tocEntries,
                    [title |-> file.name,
                     pageIndex |-> StartPageIndex(options.toc, totalPagesProcessed)])
            /\ mergedPdf' = mergedPdf \o CopiedPages(k, file, options)
            /\ totalPagesProcessed' = totalPagesProcessed + file.pages
            /\ k' = k + 1
            /\ UNCHANGED << pc, result >>
    /\ UNCHANGED << currentTool, selectedFiles, content, options, range, compressOptions, viaApp,
                    tocText, tocAnnots, pageCount, parts, blobs, pdfDoc, resultBlob,
                    fileName, view, downloadBlob, downloads >>
    /\ UNCHANGED << calls, filesAtStart, aside >>

\* One turn of  for (const file of files): the file is read and loaded
\* (a file that does not load rejects the call), its pages are copied,
\* stamped and added, and its TOC entry is recorded.
mergeFile ==
    /\ pc = "merge"
    /\ k <= Len(selectedFiles)
    /\ LET file == selectedFiles[k] IN
       IF ~file.ok
       THEN /\ result' = Rejected
            /\ pc' = "settled"
            /\ UNCHANGED << k, mergedPdf, tocEntries, totalPagesProcessed >>
       ELSE /\ tocEntries' = Append(tocEntries,
                    [title |-> file.name,
                     pageIndex |-> StartPageIndex(options.toc, totalPagesProcessed)])
            /\ mergedPdf' = mergedPdf \o CopiedPages(k, file, options)
            /\ totalPagesProcessed' = totalPagesProcessed + file.pages
            /\ k' = k + 1
            /\ UNCHANGED << pc, result >>
    /\ UNCHANGED << currentTool, selectedFiles, content, options, range, compressOptions, viaApp,
                    tocText, tocAnnots, pageCount, parts, blobs, pdfDoc, resultBlob,
                    fileName, view, downloadBlob, downloads >>
    /\ UNCHANGED << calls, filesAtStart, aside >>

\* if (options.finalPages): every page of the destination is stamped.
mergeFinalPages ==
    /\ pc = "merge"
    /\ k > Len(selectedFiles)
    /\ mergedPdf' = IF options.finalPages
                    THEN [ i \in 1..Len(mergedPdf) |->
                             [mergedPdf[i] EXCEPT !.final = FinalStamp(i - 1, totalPagesProcessed)] ]
                    ELSE mergedPdf
    /\ pc' = "merge_toc"
    /\ UNCHANGED << currentTool, selectedFiles, content, options, range, compressOptions, viaApp,
                    k, tocEntries, totalPagesProcessed, tocText, tocAnnots, pageCount,
                    parts, blobs, pdfDoc, result, resultBlob, fileName, view,
                    downloadBlob, downloads >>
    /\ UNCHANGED << calls, filesAtStart, aside >>

\* if (options.toc): a page is inserted at index 0, and for each entry its
\* line is drawn and its link annotation is pushed on the page's Annots.  An
\* entry whose pageIndex is past the last page throws, which rejects the call.
mergeToc ==
    /\ pc = "merge_toc"
    /\ IF options.toc
       THEN LET pages == << TocPage >> \o mergedPdf IN
            /\ mergedPdf' = pages
            /\ IF \A e \in 1..Len(tocEntries) : DestDefined(pages, tocEntries[e])
               THEN /\ tocText' = [ e \in 1..Len(tocEntries) |-> TocLine(tocEntries[e]) ]
                    /\ tocAnnots' = [ e \in 1..Len(tocEntries) |->
                                        LinkAnnotation(pages, tocEntries[e]) ]
                    /\ pc' = "merge_save"
                    /\ UNCHANGED result
               ELSE /\ result' = Rejected
                    /\ pc' = "settled"
                    /\ UNCHANGED << tocText, tocAnnots >>
       ELSE /\ pc' = "merge_save"
            /\ UNCHANGED << mergedPdf, tocText, tocAnnots, result >>
    /\ UNCHANGED << currentTool, selectedFiles, content, options, range, compressOptions, viaApp,
                    k, tocEntries, totalPagesProcessed, pageCount, parts, blobs, pdfDoc,
                    resultBlob, fileName, view, downloadBlob, downloads >>
    /\ UNCHANGED << calls, filesAtStart, aside >>

\* const pdfBytes = await mergedPdf.save(); return new Blob([pdfBytes])
mergeSave ==
    /\ pc = "merge_save"
    /\ result' = Resolved(<< Doc(Save(mergedPdf, TRUE), tocText, tocAnnots) >>)
    /\ pc' = "settled"
    /\ UNCHANGED << currentTool, selectedFiles, content, options, range, compressOptions, viaApp,
                    k, mergedPdf, tocEntries, totalPagesProcessed, tocText, tocAnnots,
                    pageCount, parts, blobs, pdfDoc, resultBlob, fileName, view,
                    downloadBlob, downloads >>
    /\ UNCHANGED << calls, filesAtStart, aside >>

----------------------------------------------------------------------------
(* PDFTools.split *)

\* The test of the range without the trim.
NoRangeGivenUntrimmed(r) == ~r.present \/ r.text = <<>>

\* !range || range.trim() === ''
NoRangeGiven(r) == ~r.present \/ Trim(r.text) = <<>>

\* range.split(',').map(p => p.trim()).filter(p => p)
RangeParts(text) ==
    LET trimmed == [ i \in 1..Len(StrSplit(text, ",")) |-> Trim(StrSplit(text, ",")[i]) ]
    IN  SelectSeq(trimmed, LAMBDA p : p # <<>>)

\* copyPages(srcPdf, indices) reads srcPdf.getPages()[index].node for each
\* index: an index that is no index of a page throws.
CopyPagesOk(indices, n) ==
    \A m \in 1..Len(indices) : IsInteger(indices[m]) /\ indices[m].n < n

\* newDoc.copyPages(srcPdf, indices); copiedPages.forEach(p => newDoc.addPage(p))
ExtractPages(indices) == [ m \in 1..Len(indices) |-> Page(1, indices[m].n + 1) ]

\* The file is read and loaded, and the branch of the call is chosen.
splitLoad ==
    /\ pc = "split"
    /\ LET file == selectedFiles[1] IN
       IF ~file.ok
       THEN /\ result' = Rejected
            /\ pc' = "settled"
            /\ UNCHANGED << pageCount, parts >>
       ELSE /\ pageCount' = file.pages
            /\ IF NoRangeGiven(range)
               THEN pc' = "split_pages" /\ UNCHANGED parts
               ELSE pc' = "split_parts" /\ parts' = RangeParts(range.text)
            /\ UNCHANGED result
    /\ UNCHANGED << currentTool, selectedFiles, content, options, range, compressOptions, viaApp,
                    k, mergedPdf, tocEntries, totalPagesProcessed, tocText, tocAnnots,
                    blobs, pdfDoc, resultBlob, fileName, view, downloadBlob, downloads >>
    /\ UNCHANGED << calls, filesAtStart, aside >>

\* One turn of  for (let i = 0; i < pageCount; i++): page i alone is
\* copied into a new document, which is saved.
splitPage ==
    /\ pc = "split_pages"
    /\ k <= pageCount
    /\ blobs' = Append(blobs, Doc(Save(<< Page(1, k) >>, TRUE), <<>>, <<>>))
    /\ k' = k + 1
    /\ UNCHANGED << currentTool, selectedFiles, content, options, range, compressOptions, viaApp,
                    pc, mergedPdf, tocEntries, totalPagesProcessed, tocText, tocAnnots,
                    pageCount, parts, pdfDoc, result, resultBlob, fileName, view,
                    downloadBlob, downloads >>
    /\ UNCHANGED << calls, filesAtStart, aside >>

\* One turn of  for (const part of parts): a part with resolved indices
\* gives one new document with the pages at these indices.
splitPart ==
    /\ pc = "split_parts"
    /\ k <= Len(parts)
    /\ LET indices == _parseRangePart(parts[k], pageCount) IN
       IF Len(indices) > 0 /\ ~CopyPagesOk(indices, pageCount)
       THEN /\ result' = Rejected
            /\ pc' = "settled"
            /\ UNCHANGED << k, blobs >>
       ELSE /\ blobs' = IF Len(indices) > 0
                        THEN Append(blobs, Doc(Save(ExtractPages(indices), TRUE), <<>>, <<>>))
                        ELSE blobs
            /\ k' = k + 1
            /\ UNCHANGED << pc, result >>
    /\ UNCHANGED << currentTool, selectedFiles, content, options, range, compressOptions, viaApp,
                    mergedPdf, tocEntries, totalPagesProcessed, tocText, tocAnnots,
                    pageCount, parts, pdfDoc, resultBlob, fileName, view,
                    downloadBlob, downloads >>
    /\ UNCHANGED << calls, filesAtStart, aside >>

\* return blobs, at the end of either loop
splitReturn ==
    /\ \/ pc = "split_pages" /\ k > pageCount
       \/ pc = "split_parts" /\ k > Len(parts)
    /\ result' = Resolved(blobs)
    /\ pc' = "settled"
    /\ UNCHANGED << currentTool, selectedFiles, content, options, range, compressOptions, viaApp,
                    k, mergedPdf, tocEntries, totalPagesProcessed, tocText, tocAnnots,
                    pageCount, parts, blobs, pdfDoc, resultBlob, fileName, view,
                    downloadBlob, downloads >>
    /\ UNCHANGED << calls, filesAtStart, aside >>

----------------------------------------------------------------------------
(* PDFTools.compress *)

\* The latest time a date of the document tells; the clock is not before it.
LastDate(doc) ==
    IF doc.meta.modified.t >= doc.meta.created.t THEN doc.meta.modified.t
                                                 ELSE doc.meta.created.t

\* PDFDocument.load(arrayBuffer), no options: by default pdf-lib then
\* updates the Info dictionary of the loaded document: Producer becomes
\* pdf-lib and ModDate the time of the load, Creator and CreationDate
\* likewise when the file has none.
Load(doc, now) ==
    [doc EXCEPT !.meta = [@ EXCEPT !.producer = "pdf-lib",
                                   !.modified = Date(now),
                                   !.creator = IF @ = "none" THEN "pdf-lib" ELSE @,
                                   !.created = IF @.set THEN @ ELSE Date(now)]]

\* The text fields are cleared and the two dates are left as they are.
StripMetadataKeepingDates(doc) ==
    [doc EXCEPT !.meta = Meta("empty", "empty", "empty", @.created, @.modified)]

\* 1. setTitle(''), ..., setCreationDate(new Date(0)), setModificationDate(new Date(0))
StripMetadata(doc) == [doc EXCEPT !.meta = Meta("empty", "empty", "empty", Epoch, Epoch)]

\* 2. every page that has an Annots entry loses it
RemoveAnnotations(doc) == [doc EXCEPT !.annots = {}]

\* form.flatten() throws on a field it cannot flatten.
FlattenThrows(doc) == doc.form = "corrupt"

\* 3. pdfDoc.getForm().flatten(): the fields of a form are flattened.
Flatten(doc) == [doc EXCEPT !.form = IF @ = "fields" THEN "flattened" ELSE @]

\* 4. the catalog's Outlines entry is deleted
RemoveBookmarks(doc) == [doc EXCEPT !.outlines = FALSE]

\* 5. names = catalog.get(Names); EmbeddedFiles is deleted from it when it
\* is a dictionary (names.has is defined), not when catalog.get gave an
\* indirect reference; the catalog's AF entry is deleted.
RemoveAttachments(doc) ==
    [doc EXCEPT !.names = IF @ = "dictEF" THEN "dict" ELSE @, !.af = FALSE]

\* The five steps, each under its option, in the order of the code; what
\* flatten throws is caught and the step is skipped.
Compressed(doc, o) ==
    LET d1 == IF o.stripMetadata THEN StripMetadata(doc) ELSE doc
        d2 == IF o.removeAnnotations THEN RemoveAnnotations(d1) ELSE d1
        d3 == IF o.flatten /\ ~FlattenThrows(d2) THEN Flatten(d2) ELSE d2
        d4 == IF o.removeBookmarks THEN RemoveBookmarks(d3) ELSE d3
    IN  IF o.removeAttachments THEN RemoveAttachments(d4) ELSE d4

\* The options of pdf-lib's save() when none is passed.
SaveDefaults ==
    [useObjectStreams |-> TRUE, addDefaultPage |-> TRUE, updateFieldAppearances |-> TRUE]

\* pdfDoc.save({useObjectStreams: true, addDefaultPage: false, updateFieldAppearances: false})
SaveOptions ==
    [useObjectStreams |-> TRUE, addDefaultPage |-> FALSE, updateFieldAppearances |-> FALSE]

\* The document save() writes: a document without pages gets a page under
\* addDefaultPage; the appearances of the fields of a form the call has
\* obtained (getForm, under flatten) are regenerated under
\* updateFieldAppearances; the objects are written into object streams
\* under useObjectStreams.
Written(doc, o, saveOptions) ==
    [doc EXCEPT !.pages = IF saveOptions.addDefaultPage /\ @ = 0 THEN 1 ELSE @,
                !.form = IF saveOptions.updateFieldAppearances /\ o.flatten
                            /\ @ \in {"fields", "corrupt"}
                         THEN "regenerated" ELSE @,
                !.objStm = saveOptions.useObjectStreams]

\* The pages of the blob compress returns.
CompressedPages(doc, saveOptions) ==
    Save([ i \in 1..doc.pages |-> Page(1, i) ], saveOptions.addDefaultPage)

\* The whole call with an exception of flatten leaving it.
compressFlattenUncaught ==
    /\ pc \in {"compress", "compress_again"}
    /\ LET file == selectedFiles[1] IN
       IF ~file.ok
       THEN /\ result' = Rejected
            /\ UNCHANGED pdfDoc
       ELSE \E now \in Times :
              /\ now >= LastDate(content)
              /\ IF compressOptions.flatten /\ FlattenThrows(content)
                 THEN /\ result' = Rejected
                      /\ UNCHANGED pdfDoc
                 ELSE /\ pdfDoc' = Written(Compressed(Load(content, now), compressOptions),
                                           compressOptions, SaveOptions)
                      /\ result' = Resolved(<< Doc(CompressedPages(content, SaveOptions),
                                                   <<>>, <<>>) >>)
    /\ pc' = IF pc = "compress" THEN "settled" ELSE "settled_again"
    /\ UNCHANGED << currentTool, selectedFiles, content, options, range, compressOptions, viaApp,
                    k, mergedPdf, tocEntries, totalPagesProcessed, tocText, tocAnnots,
                    pageCount, parts, blobs, resultBlob, fileName, view,
                    downloadBlob, downloads >>
    /\ UNCHANGED << calls, filesAtStart, aside >>

\* The whole call: load at some time of the clock, the five steps, save.
compress ==
    /\ pc \in {"compress", "compress_again"}
    /\ LET file == selectedFiles[1] IN
       IF ~file.ok
       THEN /\ result' = Rejected
            /\ UNCHANGED pdfDoc
       ELSE \E now \in Times :
              /\ now >= LastDate(content)
              /\ pdfDoc' = Written(Compressed(Load(content, now), compressOptions),
                                   compressOptions, SaveOptions)
              /\ result' = Resolved(<< Doc(CompressedPages(content, SaveOptions),
                                           <<>>, <<>>) >>)
    /\ pc' = IF pc = "compress" THEN "settled" ELSE "settled_again"
    /\ UNCHANGED << currentTool, selectedFiles, content, options, range, compressOptions, viaApp,
                    k, mergedPdf, tocEntries, totalPagesProcessed, tocText, tocAnnots,
                    pageCount, parts, blobs, resultBlob, fileName, view,
                    downloadBlob, downloads >>
    /\ UNCHANGED << calls, filesAtStart, aside >>

\* The document compress returned is handed to compress again, with the
\* same options: the output of the first call is the file of the second.
compressAgain ==
    /\ pc = "settled"
    /\ ~viaApp
    /\ currentTool = "compress"
    /\ result.status = "resolved"
    /\ content' = pdfDoc
    /\ result' = Pending
    /\ pc' = "compress_again"
    /\ UNCHANGED << currentTool, selectedFiles, options, range, compressOptions, viaApp,
                    k, mergedPdf, tocEntries, totalPagesProcessed, tocText, tocAnnots,
                    pageCount, parts, blobs, pdfDoc, resultBlob, fileName, view,
                    downloadBlob, downloads >>
    /\ UNCHANGED << calls, filesAtStart, aside >>

----------------------------------------------------------------------------
(* app.process, and a call of PDFTools from outside the app. *)

\* const firstFileName = firstFile.displayName || firstFile.name
FirstFileName(file) == IF file.displayName # "" THEN file.displayName ELSE file.name

\* The download names process builds from firstFileName: a prefix, the
\* name (for the archive, the name with its first ".pdf" taken out) and a
\* suffix.
MergedName == [prefix |-> "", name |-> "merged_document.pdf", suffix |-> ""]

SplitName(first) == [prefix |-> "split_", name |-> first, suffix |-> ""]

ZipName(first) == [prefix |-> "split_pages_", name |-> first, suffix |-> ".zip"]

CompressedName(first) == [prefix |-> "compressed_", name |-> first, suffix |-> ""]

RECURSIVE AllPages(_)
AllPages(docs) == IF docs = <<>> THEN <<>> ELSE Head(docs).pages \o AllPages(Tail(docs))

\* createZipFromBlobs: an archive with one entry per blob when JSZip is
\* there, else the blobs merged back into one PDF.
createZipFromBlobs(docs, jszip) ==
    IF jszip THEN ZipBlob(docs) ELSE PdfBlob(Doc(Save(AllPages(docs), TRUE), <<>>, <<>>))

\* The values saveName reads from the rename input, trimmed: nothing, or
\* the name of the first file of a list (a renamed file then has the
\* display name of another file).
RenameInputs == {"", NameAt(1)}

\* The positions of the files of a list whose displayName is not their name.
Renamed(files) == { j \in 1..Len(files) : files[j].displayName # files[j].name }

\* saveName of the inline rename of the file at position i of the list:
\* a non-empty trimmed value becomes the displayName of the file (its name
\* does not change); the list is rendered again.  The model follows the
\* lists in which at most one file is renamed.
saveName ==
    /\ pc = "idle"
    /\ \E i \in 1..Len(selectedFiles), newName \in RenameInputs :
         /\ Renamed(selectedFiles) \subseteq {i}
         /\ selectedFiles' = IF newName # ""
                             THEN [selectedFiles EXCEPT ![i].displayName = newName]
                             ELSE selectedFiles
    /\ UNCHANGED << currentTool, content, options, range, compressOptions, viaApp, pc,
                    k, mergedPdf, tocEntries, totalPagesProcessed, tocText, tocAnnots,
                    pageCount, parts, blobs, pdfDoc, result, resultBlob, fileName, view,
                    downloadBlob, downloads >>
    /\ UNCHANGED << calls, filesAtStart, aside >>

\* process(): nothing happens without a file; else the processing overlay
\* is shown and the engine is called for the current tool.
process ==
    /\ pc = "idle"
    /\ Len(selectedFiles) > 0
    /\ viaApp' = TRUE
    /\ view' = "processing"
    /\ pc' = currentTool
    /\ filesAtStart' = selectedFiles
    /\ UNCHANGED << currentTool, selectedFiles, content, options, range, compressOptions,
                    k, mergedPdf, tocEntries, totalPagesProcessed, tocText, tocAnnots,
                    pageCount, parts, blobs, pdfDoc, result, resultBlob, fileName,
                    downloadBlob, downloads >>
    /\ UNCHANGED << calls, aside >>

\* PDFTools.merge(files, options), PDFTools.split(file, range) or
\* PDFTools.compress(file, options) called directly (window.PDFTools).
call ==
    /\ pc = "idle"
    /\ currentTool = "merge" \/ Len(selectedFiles) = 1
    /\ pc' = currentTool
    /\ UNCHANGED << currentTool, selectedFiles, content, options, range, compressOptions,
                    viaApp, k, mergedPdf, tocEntries, totalPagesProcessed, tocText,
                    tocAnnots, pageCount, parts, blobs, pdfDoc, result, resultBlob,
                    fileName, view, downloadBlob, downloads >>
    /\ UNCHANGED << calls, filesAtStart, aside >>

\* The await in process returned: the blob and its name are set and
\* showSuccess is scheduled.
processResolved ==
    /\ pc = "settled"
    /\ viaApp
    /\ result.status = "resolved"
    /\ LET first == FirstFileName(selectedFiles[1]) IN
       \/ /\ currentTool = "merge"
          /\ resultBlob' = PdfBlob(result.blobs[1])
          /\ fileName' = MergedName
       \/ /\ currentTool = "split"
          /\ Len(result.blobs) > 1
          /\ \E jszip \in BOOLEAN : resultBlob' = createZipFromBlobs(result.blobs, jszip)
          /\ fileName' = ZipName(first)
       \/ /\ currentTool = "split"
          /\ Len(result.blobs) <= 1
          /\ resultBlob' = IF result.blobs = <<>> THEN Undefined ELSE PdfBlob(result.blobs[1])
          /\ fileName' = SplitName(first)
       \/ /\ currentTool = "compress"
          /\ resultBlob' = PdfBlob(result.blobs[1])
          /\ fileName' = CompressedName(first)
    /\ pc' = "timer"
    /\ UNCHANGED << currentTool, selectedFiles, content, options, range, compressOptions,
                    viaApp, k, mergedPdf, tocEntries, totalPagesProcessed, tocText,
                    tocAnnots, pageCount, parts, blobs, pdfDoc, result, view,
                    downloadBlob, downloads >>
    /\ UNCHANGED << calls, filesAtStart, aside >>

\* triggerDownload(): nothing is downloaded without a blob.
Downloaded(done, blob, name) ==
    IF blob.kind = "undefined" THEN done ELSE Append(done, [blob |-> blob, name |-> name])

\* The timer of process fires: showSuccess(resultBlob, fileName).
showSuccess ==
    /\ pc = "timer"
    /\ view' = "success"
    /\ downloadBlob' = resultBlob
    /\ downloads' = Downloaded(downloads, resultBlob, fileName)
    /\ pc' = "done"
    /\ UNCHANGED << currentTool, selectedFiles, content, options, range, compressOptions,
                    viaApp, k, mergedPdf, tocEntries, totalPagesProcessed, tocText,
                    tocAnnots, pageCount, parts, blobs, pdfDoc, result, resultBlob,
                    fileName >>
    /\ UNCHANGED << calls, filesAtStart, aside >>

\* catch (error): the alert, then hideOverlays().
processCatch ==
    /\ pc = "settled"
    /\ viaApp
    /\ result.status = "rejected"
    /\ view' = "none"
    /\ pc' = "done"
    /\ UNCHANGED << currentTool, selectedFiles, content, options, range, compressOptions,
                    viaApp, k, mergedPdf, tocEntries, totalPagesProcessed, tocText,
                    tocAnnots, pageCount, parts, blobs, pdfDoc, result, resultBlob,
                    fileName, downloadBlob, downloads >>
    /\ UNCHANGED << calls, filesAtStart, aside >>

----------------------------------------------------------------------------

Next ==
    \/ saveName
    \/ process
    \/ call
    \/ mergeFile
    \/ mergeFinalPages
    \/ mergeToc
    \/ mergeSave
    \/ splitLoad
    \/ splitPage
    \/ splitPart
    \/ splitReturn
    \/ compress
    \/ compressAgain
    \/ processResolved
    \/ showSuccess
    \/ processCatch

Spec == Init /\ [][Next]_vars

----------------------------------------------------------------------------
(* Invocations of PDFTools side by side.  An invocation is a record of   *)
(* its arguments (tool, files, content, options, range, compressOptions, *)
(* the time now of its load), its position pc, its result, and its       *)
(* frame: the variables the body of the method declares with const and   *)
(* let.  A step of an invocation is the code between two of its awaits,  *)
(* as in the actions above.                                              *)

\* The variables of a call that has run no step.
Fresh ==
    [k |-> 1, mergedPdf |-> <<>>, tocEntries |-> <<>>, totalPagesProcessed |-> 0,
     tocText |-> <<>>, tocAnnots |-> <<>>, pageCount |-> 0, parts |-> <<>>,
     blobs |-> <<>>, pdfDoc |-> NoDoc]

Invocation(tool, files, doc, opts, r, copts, now) ==
    [tool |-> tool, files |-> files, content |-> doc, options |-> opts, range |-> r,
     compressOptions |-> copts, now |-> now, pc |-> tool, result |-> Pending,
     frame |-> Fresh]

\* What a step leaves: the position, the result and the variables.
After(pc1, result1, frame1) == [pc |-> pc1, result |-> result1, frame |-> frame1]

\* The step of merge at position c.pc on the variables f.
MergeStep(c, f) ==
    IF c.pc = "merge" /\ f.k <= Len(c.files)
    THEN LET file == c.files[f.k] IN
         IF ~file.ok
         THEN After("settled", Rejected, f)
         ELSE After("merge", c.result,
                [f EXCEPT !.tocEntries = Append(@,
                              [title |-> file.name,
                               pageIndex |-> StartPageIndex(c.options.toc,
                                                            f.totalPagesProcessed)]),
                          !.mergedPdf = @ \o CopiedPages(f.k, file, c.options),
                          !.totalPagesProcessed = @ + file.pages,
                          !.k = @ + 1])
    ELSE IF c.pc = "merge"
    THEN After("merge_toc", c.result,
           [f EXCEPT !.mergedPdf =
               IF c.options.finalPages
               THEN [ i \in 1..Len(f.mergedPdf) |->
                        [f.mergedPdf[i] EXCEPT
                            !.final = FinalStamp(i - 1, f.totalPagesProcessed)] ]
               ELSE @])
    ELSE IF c.pc = "merge_toc"
    THEN IF c.options.toc
         THEN LET pages == << TocPage >> \o f.mergedPdf IN
              IF \A e \in 1..Len(f.tocEntries) : DestDefined(pages, f.tocEntries[e])
              THEN After("merge_save", c.result,
                     [f EXCEPT !.mergedPdf = pages,
                               !.tocText = [ e \in 1..Len(f.tocEntries) |->
                                               TocLine(f.tocEntries[e]) ],
                               !.tocAnnots = [ e \in 1..Len(f.tocEntries) |->
                                                 LinkAnnotation(pages, f.tocEntries[e]) ]])
              ELSE After("settled", Rejected, [f EXCEPT !.mergedPdf = pages])
         ELSE After("merge_save", c.result, f)
    ELSE After("settled",
               Resolved(<< Doc(Save(f.mergedPdf, TRUE), f.tocText, f.tocAnnots) >>), f)

\* The step of split at position c.pc on the variables f.
SplitStep(c, f) ==
    IF c.pc = "split"
    THEN LET file == c.files[1] IN
         IF ~file.ok
         THEN After("settled", Rejected, f)
         ELSE IF NoRangeGiven(c.range)
         THEN After("split_pages", c.result, [f EXCEPT !.pageCount = file.pages])
         ELSE After("split_parts", c.result,
                    [f EXCEPT !.pageCount = file.pages, !.parts = RangeParts(c.range.text)])
    ELSE IF c.pc = "split_pages" /\ f.k <= f.pageCount
    THEN After("split_pages", c.result,
           [f EXCEPT !.blobs = Append(@, Doc(Save(<< Page(1, f.k) >>, TRUE), <<>>, <<>>)),
                     !.k = @ + 1])
    ELSE IF c.pc = "split_parts" /\ f.k <= Len(f.parts)
    THEN LET indices == _parseRangePart(f.parts[f.k], f.pageCount) IN
         IF Len(indices) > 0 /\ ~CopyPagesOk(indices, f.pageCount)
         THEN After("settled", Rejected, f)
         ELSE After("split_parts", c.result,
                [f EXCEPT !.blobs = IF Len(indices) > 0
                                    THEN Append(@, Doc(Save(ExtractPages(indices), TRUE),
                                                       <<>>, <<>>))
                                    ELSE @,
                          !.k = @ + 1])
    ELSE After("settled", Resolved(f.blobs), f)

\* The step of compress, the whole call, on the variables f.
CompressStep(c, f) ==
    IF ~c.files[1].ok
    THEN After("settled", Rejected, f)
    ELSE After("settled",
               Resolved(<< Doc(CompressedPages(c.content, SaveOptions), <<>>, <<>>) >>),
               [f EXCEPT !.pdfDoc = Written(Compressed(Load(c.content, c.now),
                                                       c.compressOptions),
                                            c.compressOptions, SaveOptions)])

StepOf(c, f) ==
    IF c.tool = "merge" THEN MergeStep(c, f)
    ELSE IF c.tool = "split" THEN SplitStep(c, f)
    ELSE CompressStep(c, f)

\* Every invocation works on the variables of one frame for all.
FrameShared(c) == 1

\* The frame of the variables invocation c works on: its own, the body of
\* each method declaring its variables anew at every call; PDFTools has no
\* field and the file declares no variable outside the methods.
Frame(c) == c

\* The event loop resumes invocation c at the await it waits at.
resume(c) ==
    /\ calls[c].pc # "settled"
    /\ LET s == StepOf(calls[c], calls[Frame(c)].frame)
       IN  calls' = [[calls EXCEPT ![c].pc = s.pc, ![c].result = s.result]
                        EXCEPT ![Frame(c)].frame = s.frame]
    /\ UNCHANGED << currentTool, selectedFiles, content, options, range, compressOptions,
                    viaApp, pc, k, mergedPdf, tocEntries, totalPagesProcessed, tocText,
                    tocAnnots, pageCount, parts, blobs, pdfDoc, result, resultBlob,
                    fileName, view, downloadBlob, downloads >>
    /\ UNCHANGED << filesAtStart, aside >>

AllOptions == [toc |-> TRUE, filename |-> TRUE, origPages |-> TRUE, finalPages |-> TRUE]

AllCompressOptions ==
    [stripMetadata |-> TRUE, removeAnnotations |-> TRUE, flatten |-> TRUE,
     removeBookmarks |-> TRUE, removeAttachments |-> TRUE]

\* The invocations that are run side by side: merges of one and of two
\* files, one of them with a file that does not load, with no option and
\* with all; splits into pages and by ranges; compressions.
Invocations ==
    { Invocation("merge", files, NoDoc, opts, NoRange, NoCompressOptions, 1) :
        files \in { << File(NameAt(1), TRUE, MaxPages) >>,
                    << File(NameAt(1), TRUE, 1), File(NameAt(2), TRUE, 2) >>,
                    << File(NameAt(1), TRUE, 1), File(NameAt(2), FALSE, 0) >> },
        opts \in { NoOptions, AllOptions } }
    \cup
    { Invocation("split", << File(NameAt(1), ok, MaxPages) >>, NoDoc, NoOptions, r,
                 NoCompressOptions, 1) :
        ok \in BOOLEAN, r \in { NoRange } \cup { RangeOf(t) : t \in ExampleRanges } }
    \cup
    { Invocation("compress", << File(NameAt(1), TRUE, 1) >>, doc, NoOptions, NoRange,
                 copts, now) :
        doc \in { Structure(1, SetMeta, {1}, "fields", TRUE, "dictEF", TRUE),
                  Structure(1, NoMeta, {}, "corrupt", FALSE, "refEF", FALSE) },
        copts \in { NoCompressOptions, AllCompressOptions },
        now \in Times }

\* Two invocations have been made and none has run a step; the app is idle.
InitConcurrent ==
    /\ Idle
    /\ currentTool = "merge"
    /\ selectedFiles = <<>>
    /\ content = NoDoc
    /\ options = NoOptions
    /\ range = NoRange
    /\ compressOptions = NoCompressOptions
    /\ dropListeners = Listeners(currentTool, 0)
    /\ tocDrawn = NoToc
    /\ NoWorker
    /\ calls \in { << a, b >> : a \in Invocations, b \in Invocations }

NextConcurrent == \E c \in 1..Len(calls) : resume(c)

SpecConcurrent == InitConcurrent /\ [][NextConcurrent]_vars

----------------------------------------------------------------------------
(* The file list of the page: the handlers that select, remove, clear,   *)
(* restore and reorder the files.  Positions are counted from 1.         *)

MaxListeners == 4    \* the most drop listeners the file list element gets

\* The variables of a call of PDFTools and of the process that made it.
engineVars == << content, options, range, compressOptions, viaApp, pc, k, mergedPdf,
                 tocEntries, totalPagesProcessed, tocText, tocAnnots, pageCount, parts,
                 blobs, pdfDoc, result, resultBlob, fileName, calls, filesAtStart,
                 tocDrawn, workerVars >>

Tools == {"merge", "split", "compress"}

\* What a change or drop event hands to handleFiles after the filter on
\* the type: no PDF, one, or two of the PDF files the user can pick.
Picks ==
    LET selectable == { File(NameAt(i), TRUE, 1) : i \in 1..MaxFiles }
    IN  { <<>> } \cup { << f >> : f \in selectable }
                 \cup { p \in selectable \X selectable : p[1] # p[2] }

\* array.splice(i, 1) of the element at position i
Spliced(files, i) == SubSeq(files, 1, i - 1) \o SubSeq(files, i + 1, Len(files))

\* clearInterval(handle)
Cleared(timers, handle) ==
    IF handle # Null THEN [timers EXCEPT ![handle].running = FALSE] ELSE timers

\* hideOverlays(): both overlays are hidden and the timer whose handle is
\* in progressInterval is cleared.  The calls of process in flight are
\* marked: the overlays were hidden on them.
hideOverlays ==
    /\ view' = "none"
    /\ intervals' = Cleared(intervals, progressInterval)
    /\ runs' = [ r \in 1..Len(runs) |->
                    IF runs[r].stage \in {"await", "timer"}
                    THEN [runs[r] EXCEPT !.hidden = TRUE]
                    ELSE runs[r] ]
    /\ UNCHANGED << progressInterval, bar >>

\* selectTool(tool): the tool is set, a tool for one file keeps the first
\* file only (and tells so in a toast, which replaces the toast on the
\* page), the list is rendered and the overlays are hidden.
selectTool ==
    /\ draggedIndex = Null
    /\ \E tool \in Tools :
         /\ Listeners(tool, dropListeners) <= MaxListeners
         /\ currentTool' = tool
         /\ IF tool # "merge" /\ Len(selectedFiles) > 1
            THEN /\ selectedFiles' = SubSeq(selectedFiles, 1, 1)
                 /\ backupFiles' = <<>>
            ELSE UNCHANGED << selectedFiles, backupFiles >>
         /\ dropListeners' = Listeners(tool, dropListeners)
    /\ hideOverlays
    /\ UNCHANGED << engineVars, dragVars, downloadBlob, downloads >>

\* handleFiles(files): without a PDF only a toast is shown; the merge tool
\* appends the PDFs to the list, the other tools keep the first PDF alone;
\* the list is rendered.
handleFiles ==
    /\ draggedIndex = Null
    /\ \E pdfFiles \in Picks :
         /\ \A j \in 1..Len(pdfFiles), i \in 1..Len(selectedFiles) :
                pdfFiles[j].name # selectedFiles[i].name
         /\ IF Len(pdfFiles) = 0
            THEN /\ backupFiles' = <<>>
                 /\ UNCHANGED << selectedFiles, dropListeners >>
            ELSE /\ Listeners(currentTool, dropListeners) <= MaxListeners
                 /\ dropListeners' = Listeners(currentTool, dropListeners)
                 /\ IF currentTool = "merge"
                    THEN /\ Len(selectedFiles) + Len(pdfFiles) <= MaxFiles
                         /\ selectedFiles' = selectedFiles \o pdfFiles
                         /\ UNCHANGED backupFiles
                    ELSE /\ selectedFiles' = SubSeq(pdfFiles, 1, 1)
                         /\ backupFiles' = IF Len(selectedFiles) > 0 \/ Len(pdfFiles) > 1
                                           THEN <<>>
                                           ELSE backupFiles
    /\ UNCHANGED << currentTool, engineVars, dragVars, progressVars, view, downloadBlob,
                    downloads >>

\* removeFile(index): the file is spliced out of the array and the list is
\* rendered.
removeFile ==
    /\ draggedIndex = Null
    /\ Listeners(currentTool, dropListeners) <= MaxListeners
    /\ \E index \in 1..Len(selectedFiles) : selectedFiles' = Spliced(selectedFiles, index)
    /\ dropListeners' = Listeners(currentTool, dropListeners)
    /\ UNCHANGED << currentTool, engineVars, dragVars, backupFiles, progressVars, view,
                    downloadBlob, downloads >>

\* clearFiles(): nothing without a file; else a copy of the list is kept
\* for the Undo button of the toast, the list is emptied and rendered and
\* the overlays are hidden.
clearFiles ==
    /\ draggedIndex = Null
    /\ Len(selectedFiles) > 0
    /\ Listeners(currentTool, dropListeners) <= MaxListeners
    /\ backupFiles' = << selectedFiles >>
    /\ selectedFiles' = <<>>
    /\ dropListeners' = Listeners(currentTool, dropListeners)
    /\ hideOverlays
    /\ UNCHANGED << currentTool, engineVars, dragVars, downloadBlob, downloads >>

\* A click on the Undo button of the toast: this.selectedFiles =
\* backupFiles, the list is rendered and the toast is removed.
undo ==
    /\ draggedIndex = Null
    /\ backupFiles # <<>>
    /\ Listeners(currentTool, dropListeners) <= MaxListeners
    /\ selectedFiles' = backupFiles[1]
    /\ backupFiles' = <<>>
    /\ dropListeners' = Listeners(currentTool, dropListeners)
    /\ UNCHANGED << currentTool, engineVars, dragVars, progressVars, view, downloadBlob,
                    downloads >>

\* The toast with the Undo button is removed when its time is over.
toastRemoved ==
    /\ backupFiles # <<>>
    /\ backupFiles' = <<>>
    /\ UNCHANGED << currentTool, selectedFiles, engineVars, dragVars, dropListeners,
                    progressVars, view, downloadBlob, downloads >>

\* dragstart on the thumb at position index (the thumbs of the merge tool
\* have the drag listeners): the position is kept in draggedIndex and in
\* the data of the drag.
dragstart ==
    /\ currentTool = "merge"
    /\ draggedIndex = Null
    /\ \E index \in 1..Len(selectedFiles) : draggedIndex' = index
    /\ UNCHANGED << currentTool, selectedFiles, engineVars, dropTargetIndex, hovered,
                    dropListeners, backupFiles, progressVars, view, downloadBlob,
                    downloads >>

\* let insertPos = isBeforeMiddle ? index : index + 1
InsertPos(index, isBeforeMiddle) == IF isBeforeMiddle THEN index ELSE index + 1

\* dragover on the thumb at position index: nothing on the dragged thumb
\* itself; else dropTargetIndex is the insert position, or null when that
\* is where the dragged file is.
dragover ==
    /\ draggedIndex # Null
    /\ hovered.on # "dropped"
    /\ \E index \in 1..Len(selectedFiles), isBeforeMiddle \in BOOLEAN :
         /\ hovered' = [on |-> "thumb", index |-> index, isBeforeMiddle |-> isBeforeMiddle]
         /\ dropTargetIndex' =
              IF draggedIndex = index
              THEN dropTargetIndex
              ELSE LET insertPos == InsertPos(index, isBeforeMiddle)
                   IN  IF insertPos = draggedIndex \/ insertPos = draggedIndex + 1
                       THEN Null
                       ELSE insertPos
    /\ UNCHANGED << currentTool, selectedFiles, engineVars, draggedIndex, dropListeners,
                    backupFiles, progressVars, view, downloadBlob, downloads >>

\* dragover on the file list element, outside every thumb.
dragoverList ==
    /\ draggedIndex # Null
    /\ hovered.on # "dropped"
    /\ hovered' = [on |-> "list", index |-> Null, isBeforeMiddle |-> FALSE]
    /\ UNCHANGED << currentTool, selectedFiles, engineVars, draggedIndex, dropTargetIndex,
                    dropListeners, backupFiles, progressVars, view, downloadBlob,
                    downloads >>

\* splice(oldIndex, 1) and splice(newIndex, 0, movedFile)
Moved(files, oldIndex, newIndex) ==
    LET rest == Spliced(files, oldIndex)
    IN  SubSeq(rest, 1, newIndex - 1) \o << files[oldIndex] >>
            \o SubSeq(rest, newIndex, Len(rest))

\* drop on a thumb: with a dropTargetIndex and a draggedIndex the file is
\* moved in the array, and the list is rendered when it changed place.
\* Until the drag ends the pointer is on no target any more.
drop ==
    /\ draggedIndex # Null
    /\ hovered.on = "thumb"
    /\ LET oldIndex == draggedIndex
           newIndex == IF oldIndex < dropTargetIndex
                       THEN dropTargetIndex - 1
                       ELSE dropTargetIndex
       IN  IF dropTargetIndex # Null /\ oldIndex # newIndex
           THEN /\ Listeners(currentTool, dropListeners) <= MaxListeners
                /\ selectedFiles' = Moved(selectedFiles, oldIndex, newIndex)
                /\ dropListeners' = Listeners(currentTool, dropListeners)
           ELSE UNCHANGED << selectedFiles, dropListeners >>
    /\ hovered' = [on |-> "dropped", index |-> Null, isBeforeMiddle |-> FALSE]
    /\ UNCHANGED << currentTool, engineVars, draggedIndex, dropTargetIndex, backupFiles,
                    progressVars, view, downloadBlob, downloads >>

\* The drop listener of the file list element, run n times on the file
\* at position oldIndex: splice(oldIndex, 1), push(movedFile).
RECURSIVE PushedToEnd(_, _, _)
PushedToEnd(files, oldIndex, n) ==
    IF n = 0
    THEN files
    ELSE PushedToEnd(Spliced(files, oldIndex) \o << files[oldIndex] >>, oldIndex, n - 1)

\* drop on the file list element itself: every drop listener the element
\* has runs with the position in the data of the drag, moves the file at
\* that position to the end and renders the list.
dropOnList ==
    /\ draggedIndex # Null
    /\ hovered.on = "list"
    /\ dropListeners + dropListeners <= MaxListeners
    /\ selectedFiles' = PushedToEnd(selectedFiles, draggedIndex, dropListeners)
    /\ dropListeners' = dropListeners + dropListeners
    /\ hovered' = [on |-> "dropped", index |-> Null, isBeforeMiddle |-> FALSE]
    /\ UNCHANGED << currentTool, engineVars, draggedIndex, dropTargetIndex, backupFiles,
                    progressVars, view, downloadBlob, downloads >>

\* dragend on the dragged thumb: draggedIndex and dropTargetIndex are null
\* again.
dragend ==
    /\ draggedIndex # Null
    /\ draggedIndex' = Null
    /\ dropTargetIndex' = Null
    /\ hovered' = Nowhere
    /\ UNCHANGED << currentTool, selectedFiles, engineVars, dropListeners, backupFiles,
                    progressVars, view, downloadBlob, downloads >>

\* init(): selectTool(savedTool) on a page without files.
InitList ==
    /\ Idle
    /\ calls = <<>>
    /\ currentTool \in Tools
    /\ selectedFiles = <<>>
    /\ content = NoDoc
    /\ options = NoOptions
    /\ range = NoRange
    /\ compressOptions = NoCompressOptions
    /\ dropListeners = Listeners(currentTool, 0)
    /\ tocDrawn = NoToc
    /\ NoWorker

NextList ==
    \/ selectTool
    \/ handleFiles
    \/ removeFile
    \/ clearFiles
    \/ undo
    \/ toastRemoved
    \/ dragstart
    \/ dragover
    \/ dragoverList
    \/ drop
    \/ dropOnList
    \/ dragend

SpecList == InitList /\ [][NextList]_vars

----------------------------------------------------------------------------
(* The merge of process while the list is edited: PDFTools.merge is handed *)
(* the array in app.selectedFiles, which removeFile and the drop on a     *)
(* thumb change in place.                                                 *)

\* The merge tool with a list of one-page files that load, and with no
\* option or with all.
InitInFlight ==
    /\ Idle
    /\ calls = <<>>
    /\ currentTool = "merge"
    /\ selectedFiles \in { [ j \in 1..n |-> File(NameAt(j), TRUE, 1) ] : n \in 1..MaxFiles }
    /\ content = NoDoc
    /\ options \in { NoOptions, AllOptions }
    /\ range = NoRange
    /\ compressOptions = NoCompressOptions
    /\ dropListeners = Listeners(currentTool, 0)
    /\ tocDrawn = NoToc
    /\ NoWorker

NextInFlight ==
    \/ process
    \/ mergeFile
    \/ mergeFinalPages
    \/ mergeToc
    \/ mergeSave
    \/ processResolved
    \/ showSuccess
    \/ removeFile
    \/ dragstart
    \/ dragover
    \/ drop
    \/ dragend

SpecInFlight == InitInFlight /\ [][NextInFlight]_vars

----------------------------------------------------------------------------
(* The simulated progress of process: the setInterval timer each call of  *)
(* process starts, the handle in app.progressInterval, the bar, and what  *)
(* the call does when the PDFTools call it awaits has settled.  What the  *)
(* PDFTools call computes is left to the specifications above; here it    *)
(* resolves to one blob or rejects.                                      *)

MaxRuns == 2         \* the most calls of process that are started

MaxTicks == 2        \* the most firings of one timer that are followed

\* Math.random() * 10: a number below 10, here a whole number
RandomDraws == {4, 9}

\* The blob the PDFTools call of run r resolves to.
ResultOf(r) == PdfBlob(Doc(<< Page(r, 1) >>, <<>>, <<>>))

\* fileName, by the tool of the call
NameFor(run) ==
    IF run.tool = "merge" THEN MergedName
    ELSE IF run.tool = "split" THEN SplitName(run.first)
    ELSE CompressedName(run.first)

\* process() up to its await: nothing without a file; else the processing
\* overlay is shown, the bar is at 0, a timer is started and its handle is
\* put in progressInterval, and PDFTools is called for the current tool
\* with firstFileName read from the first file.
start ==
    /\ draggedIndex = Null
    /\ Len(selectedFiles) > 0
    /\ Len(runs) < MaxRuns
    /\ view' = "processing"
    /\ bar' = 0
    /\ intervals' = Append(intervals, [running |-> TRUE, progress |-> 0, fired |-> 0])
    /\ progressInterval' = Len(intervals) + 1
    /\ runs' = Append(runs, [stage |-> "await", hidden |-> FALSE, tool |-> currentTool,
                             first |-> FirstFileName(selectedFiles[1])])
    /\ UNCHANGED << currentTool, selectedFiles, engineVars, dragVars, dropListeners,
                    backupFiles, downloadBlob, downloads >>

\* The callback of the timer with handle h: below 90 its progress grows by
\* the draw, up to 90, and the bar is set to it.  fired counts the firings
\* of the timer.
tick(h) ==
    /\ intervals[h].running
    /\ intervals[h].fired < MaxTicks
    /\ intervals[h].progress < 90
    /\ \E draw \in RandomDraws :
         LET progress == IF intervals[h].progress + draw > 90
                         THEN 90
                         ELSE intervals[h].progress + draw
         IN  /\ intervals' = [intervals EXCEPT ![h].progress = progress,
                                               ![h].fired = @ + 1]
             /\ bar' = progress
    /\ UNCHANGED << currentTool, selectedFiles, engineVars, dragVars, dropListeners,
                    backupFiles, progressInterval, runs, view, downloadBlob, downloads >>

\* The PDFTools call run r awaits resolved: the timer whose handle is in
\* progressInterval is cleared, the bar is set to 100 and showSuccess is
\* scheduled.
resolved(r) ==
    /\ runs[r].stage = "await"
    /\ intervals' = Cleared(intervals, progressInterval)
    /\ bar' = 100
    /\ runs' = [runs EXCEPT ![r].stage = "timer"]
    /\ UNCHANGED << currentTool, selectedFiles, engineVars, dragVars, dropListeners,
                    backupFiles, progressInterval, view, downloadBlob, downloads >>

\* The PDFTools call run r awaits rejected: the timer whose handle is in
\* progressInterval is cleared, and after the alert the overlays are hidden.
rejected(r) ==
    /\ runs[r].stage = "await"
    /\ intervals' = Cleared(intervals, progressInterval)
    /\ view' = "none"
    /\ runs' = [runs EXCEPT ![r].stage = "failed"]
    /\ UNCHANGED << currentTool, selectedFiles, engineVars, dragVars, dropListeners,
                    backupFiles, progressInterval, bar, downloadBlob, downloads >>

\* The setTimeout callback of run r: showSuccess(resultBlob, fileName)
\* shows the success view, downloads the blob and shows a toast.
succeeded(r) ==
    /\ runs[r].stage = "timer"
    /\ view' = "success"
    /\ downloadBlob' = ResultOf(r)
    /\ downloads' = Downloaded(downloads, ResultOf(r), NameFor(runs[r]))
    /\ backupFiles' = <<>>
    /\ runs' = [runs EXCEPT ![r].stage = "done"]
    /\ UNCHANGED << currentTool, selectedFiles, engineVars, dragVars, dropListeners,
                    progressInterval, intervals, bar >>

\* A page with one file selected, in any tool, and no call of process yet.
InitProgress ==
    /\ Idle
    /\ calls = <<>>
    /\ currentTool \in Tools
    /\ selectedFiles = << File(NameAt(1), TRUE, 1) >>
    /\ content = NoDoc
    /\ options = NoOptions
    /\ range = NoRange
    /\ compressOptions = NoCompressOptions
    /\ dropListeners = Listeners(currentTool, 0)
    /\ tocDrawn = NoToc
    /\ NoWorker

NextProgress ==
    \/ start
    \/ \E h \in 1..Len(intervals) : tick(h)
    \/ \E r \in 1..Len(runs) : resolved(r)
    \/ \E r \in 1..Len(runs) : rejected(r)
    \/ \E r \in 1..Len(runs) : succeeded(r)
    \/ selectTool
    \/ clearFiles

SpecProgress == InitProgress /\ [][NextProgress]_vars

----------------------------------------------------------------------------
(* The TOC page of merge: where the line of each entry and its link       *)
(* rectangle are put.  Lengths are in hundredths of a point.              *)

MaxSources == 30     \* the most sources of a merge with a TOC page

\* const yPos = height - 150 - (idx * 25)
YPos(height, idx) == height - 15000 - (idx * 2500)

\* const linkRect = { x: 70, y: yPos - 2, width: textWidth, height: 16 }
LinkRect(yPos) == [y |-> yPos - 200, height |-> 1600]

\* One turn of tocEntries.forEach((entry, idx) => ...): the line of the
\* entry is drawn at yPos and its link rectangle is made.
tocEntry ==
    /\ tocDrawn.idx < tocDrawn.entries
    /\ tocDrawn' = [tocDrawn EXCEPT !.idx = @ + 1,
                                    !.yPos = YPos(PageHeight, tocDrawn.idx)]
    /\ UNCHANGED << currentTool, selectedFiles, content, options, range, compressOptions,
                    viaApp, pc, k, mergedPdf, tocEntries, totalPagesProcessed, tocText,
                    tocAnnots, pageCount, parts, blobs, pdfDoc, result, resultBlob,
                    fileName, view, downloadBlob, downloads, calls, filesAtStart,
                    dragVars, dropListeners, backupFiles, progressVars, workerVars >>

\* A merge with the toc option that has copied its sources, none to
\* MaxSources of them, and is at the forEach of the TOC page.
InitToc ==
    /\ Idle
    /\ calls = <<>>
    /\ currentTool = "merge"
    /\ selectedFiles = <<>>
    /\ content = NoDoc
    /\ options = NoOptions
    /\ range = NoRange
    /\ compressOptions = NoCompressOptions
    /\ dropListeners = Listeners(currentTool, 0)
    /\ tocDrawn \in { [entries |-> n, idx |-> 0, yPos |-> PageHeight] : n \in 0..MaxSources }
    /\ NoWorker

SpecToc == InitToc /\ [][tocEntry]_vars

----------------------------------------------------------------------------
(* The service worker: its install, activate and fetch listeners and the  *)
(* caches of the origin.                                                  *)

MaxFetches == 3      \* the most fetch events the worker is sent

CACHE_NAME == "pdf-master-v2"

ASSETS_TO_CACHE ==
    {"./", "./index.html", "./style.css", "./app.js", "./pdf-tools.js",
     "./libs/lucide.js", "./libs/pdf-lib.min.js", "./libs/jszip.min.js"}

\* The names of the caches the origin can have: the one of this worker,
\* the one of an earlier version and one made by other code.
CacheNames == {CACHE_NAME, "pdf-master-v1", "fonts"}

\* The requests of the fetch events: a cached asset, a file of the origin
\* that is no asset, and a file of another origin.
Requests == {"./index.html", "./manifest.json", "https://cdn.example/lib.js"}

\* No response of the network (yet).
NoReply == [status |-> 0, type |-> "none"]

\* The responses fetch(event.request) resolves to.
Replies == [status : {200, 404}, type : {"basic", "cors"}]
               \cup { [status |-> 0, type |-> "opaque"] }

\* The install listener: the cache CACHE_NAME is opened, which makes it,
\* and addAll puts every asset in it or, when one of them cannot be
\* fetched, none; the worker is installed when addAll succeeded.
install ==
    /\ worker = "installing"
    /\ cacheKeys' = cacheKeys \cup {CACHE_NAME}
    /\ \E added \in BOOLEAN :
         IF added
         THEN /\ cached' = cached \cup { << CACHE_NAME, a >> : a \in ASSETS_TO_CACHE }
              /\ worker' = "installed"
         ELSE /\ cached' = cached
              /\ worker' = "redundant"
    /\ UNCHANGED << currentTool, selectedFiles, content, options, range, compressOptions,
                    viaApp, pc, k, mergedPdf, tocEntries, totalPagesProcessed, tocText,
                    tocAnnots, pageCount, parts, blobs, pdfDoc, result, resultBlob,
                    fileName, view, downloadBlob, downloads, calls, filesAtStart,
                    dragVars, dropListeners, backupFiles, progressVars, tocDrawn,
                    fetches >>

\* The activate listener: caches.delete for every name of caches.keys()
\* that is not CACHE_NAME; the worker is activated when all are settled.
activate ==
    /\ worker = "installed"
    /\ cacheKeys' = { name \in cacheKeys : ~(name # CACHE_NAME) }
    /\ cached' = { c \in cached : ~(c[1] # CACHE_NAME) }
    /\ worker' = "activated"
    /\ UNCHANGED << currentTool, selectedFiles, content, options, range, compressOptions,
                    viaApp, pc, k, mergedPdf, tocEntries, totalPagesProcessed, tocText,
                    tocAnnots, pageCount, parts, blobs, pdfDoc, result, resultBlob,
                    fileName, view, downloadBlob, downloads, calls, filesAtStart,
                    dragVars, dropListeners, backupFiles, progressVars, tocDrawn,
                    fetches >>

\* caches.match(request): a response of any cache for the request
Match(request) == \E name \in cacheKeys : << name, request >> \in cached

\* The fetch listener up to the answer of caches.match: on a match the
\* event is answered with the cached response, else fetch(event.request)
\* is called.
fetch ==
    /\ worker = "activated"
    /\ Len(fetches) < MaxFetches
    /\ \E request \in Requests :
         fetches' = Append(fetches,
                       IF Match(request)
                       THEN [request |-> request, from |-> "cache", stage |-> "answered",
                             reply |-> NoReply]
                       ELSE [request |-> request, from |-> "network", stage |-> "network",
                             reply |-> NoReply])
    /\ UNCHANGED << currentTool, selectedFiles, content, options, range, compressOptions,
                    viaApp, pc, k, mergedPdf, tocEntries, totalPagesProcessed, tocText,
                    tocAnnots, pageCount, parts, blobs, pdfDoc, result, resultBlob,
                    fileName, view, downloadBlob, downloads, calls, filesAtStart,
                    dragVars, dropListeners, backupFiles, progressVars, tocDrawn,
                    worker, cacheKeys, cached >>

\* The put of every response, whatever its status and type.
repliedStoringAll(f) ==
    /\ fetches[f].stage = "network"
    /\ \E response \in Replies :
         fetches' = [fetches EXCEPT ![f].reply = response, ![f].stage = "put"]
    /\ UNCHANGED << currentTool, selectedFiles, content, options, range, compressOptions,
                    viaApp, pc, k, mergedPdf, tocEntries, totalPagesProcessed, tocText,
                    tocAnnots, pageCount, parts, blobs, pdfDoc, result, resultBlob,
                    fileName, view, downloadBlob, downloads, calls, filesAtStart,
                    dragVars, dropListeners, backupFiles, progressVars, tocDrawn,
                    worker, cacheKeys, cached >>

\* fetch(event.request) of fetch event f settled: a rejection fails the
\* event; a response that is not 200 or not basic answers it; another
\* answers it and its clone is handed to caches.open(CACHE_NAME) and put.
replied(f) ==
    /\ fetches[f].stage = "network"
    /\ \/ fetches' = [fetches EXCEPT ![f].stage = "failed"]
       \/ \E response \in Replies :
            fetches' = [fetches EXCEPT
                           ![f].reply = response,
                           ![f].stage = IF response.status # 200 \/ response.type # "basic"
                                        THEN "answered"
                                        ELSE "put"]
    /\ UNCHANGED << currentTool, selectedFiles, content, options, range, compressOptions,
                    viaApp, pc, k, mergedPdf, tocEntries, totalPagesProcessed, tocText,
                    tocAnnots, pageCount, parts, blobs, pdfDoc, result, resultBlob,
                    fileName, view, downloadBlob, downloads, calls, filesAtStart,
                    dragVars, dropListeners, backupFiles, progressVars, tocDrawn,
                    worker, cacheKeys, cached >>

\* caches.open(CACHE_NAME).then(cache => cache.put(...)) of fetch event f,
\* which the listener does not wait for.
put(f) ==
    /\ fetches[f].stage = "put"
    /\ cacheKeys' = cacheKeys \cup {CACHE_NAME}
    /\ cached' = cached \cup { << CACHE_NAME, fetches[f].request >> }
    /\ fetches' = [fetches EXCEPT ![f].stage = "stored"]
    /\ UNCHANGED << currentTool, selectedFiles, content, options, range, compressOptions,
                    viaApp, pc, k, mergedPdf, tocEntries, totalPagesProcessed, tocText,
                    tocAnnots, pageCount, parts, blobs, pdfDoc, result, resultBlob,
                    fileName, view, downloadBlob, downloads, calls, filesAtStart,
                    dragVars, dropListeners, backupFiles, progressVars, tocDrawn,
                    worker >>

\* The worker is being installed; the origin has any of the caches, each
\* empty or with the page in it.
InitWorker ==
    /\ Idle
    /\ calls = <<>>
    /\ currentTool = "merge"
    /\ selectedFiles = <<>>
    /\ content = NoDoc
    /\ options = NoOptions
    /\ range = NoRange
    /\ compressOptions = NoCompressOptions
    /\ dropListeners = Listeners(currentTool, 0)
    /\ tocDrawn = NoToc
    /\ worker = "installing"
    /\ cacheKeys \in SUBSET CacheNames
    /\ cached \in SUBSET { << name, "./index.html" >> : name \in cacheKeys }
    /\ fetches = <<>>

NextWorker ==
    \/ install
    \/ activate
    \/ fetch
    \/ \E f \in 1..Len(fetches) : replied(f)
    \/ \E f \in 1..Len(fetches) : put(f)

SpecWorker == InitWorker /\ [][NextWorker]_vars


----------------------------------------------------------------------------
(* What the properties are stated with. *)

AllLoadable == \A i \in 1..Len(selectedFiles) : selectedFiles[i].ok

\* The sum of the page counts of the first j files.
RECURSIVE SumPages(_, _)
SumPages(files, j) == IF j = 0 THEN 0 ELSE SumPages(files, j - 1) + files[j].pages

\* The refs of the pages of the first j files, file by file, page by page.
RECURSIVE SourceRefs(_, _)
SourceRefs(files, j) ==
    IF j = 0 THEN <<>>
    ELSE SourceRefs(files, j - 1) \o [ i \in 1..files[j].pages |-> << j, i >> ]

Refs(pages) == [ i \in 1..Len(pages) |-> Ref(pages[i]) ]

\* The call of merge has settled, every source being loadable.
MergeSettled == currentTool = "merge" /\ result.status # "pending" /\ AllLoadable

\* The index (1-based) of the page with the given ref in a sequence of pages.
IndexOfRef(pages, ref) == CHOOSE i \in 1..Len(pages) : Ref(pages[i]) = ref

----------------------------------------------------------------------------
(* merge *)

\* C1: after merge(sources, {toc: true}) of loadable sources of any page
\* counts, the first page carries one link annotation per source, in source
\* order, and the destination of link j is the first copied page of source
\* j, the page at final index 1 + (the page counts of the sources before j).
C1_TocLinksReachFirstPages ==
    (MergeSettled /\ options.toc) =>
        /\ result.status = "resolved"
        /\ LET doc == result.blobs[1] IN
           /\ Len(doc.annots) = Len(selectedFiles)
           /\ \A j \in 1..Len(selectedFiles) :
                /\ doc.annots[j].dest = << j, 1 >>
                /\ 2 + SumPages(selectedFiles, j - 1) <= Len(doc.pages)
                /\ Ref(doc.pages[2 + SumPages(selectedFiles, j - 1)]) = << j, 1 >>

\* C2: merge with toc and finalPages gives 1 + (sum of the page counts)
\* pages, the copied page at position k (1-based, the TOC page being page 1)
\* is stamped "Page k of T", T the final page count with the TOC page, and
\* the page number of each TOC entry is the number stamped on its target.
C2_FinalPagesCountTheTocPage ==
    (MergeSettled /\ options.toc /\ options.finalPages /\ result.status = "resolved") =>
        LET doc == result.blobs[1]
            T == Len(doc.pages)
        IN  /\ T = 1 + SumPages(selectedFiles, Len(selectedFiles))
            /\ \A p \in 2..T : doc.pages[p].final = << p, T >>
            /\ \A e \in 1..Len(doc.annots) :
                 doc.pages[IndexOfRef(doc.pages, doc.annots[e].dest)].final[1]
                    = doc.tocText[e].page

\* C3: merge gives, for every list of loadable sources, the pages of the
\* sources in input order, each source's pages in source order, after one
\* TOC page when toc is requested and after nothing otherwise; merge([A])
\* without options gives pageCount(A) pages with no stamp, no TOC page and
\* no link.
C3_MergeConcatenates ==
    MergeSettled =>
        /\ result.status = "resolved"
        /\ LET doc == result.blobs[1] IN
           /\ Refs(doc.pages) =
                (IF options.toc THEN << Ref(TocPage) >> ELSE <<>>)
                    \o SourceRefs(selectedFiles, Len(selectedFiles))
           /\ (Len(selectedFiles) = 1 /\ options = NoOptions) =>
                /\ doc.pages = [ i \in 1..selectedFiles[1].pages |-> Page(1, i) ]
                /\ doc.annots = <<>>
                /\ doc.tocText = <<>>

----------------------------------------------------------------------------
(* split and _parseRangePart *)

\* The call of split has settled, the source being loadable.
SplitSettled == currentTool = "split" /\ result.status # "pending" /\ AllLoadable

\* The range expression is absent, empty or all white space.
Blank(r) == ~r.present \/ \A i \in 1..Len(r.text) : r.text[i] = " "

\* The integer v as an index.
Index(v) == [nan |-> FALSE, n |-> v, d |-> 1]

\* A document holding the source pages a..b (1-based), in this order.
PagesFromTo(a, b) == Doc([ m \in 1..(b - a + 1) |-> Page(1, a + m - 1) ], <<>>, <<>>)

\* A page number: a non-empty text of digits.
IsNumeral(p) == p # <<>> /\ IsDigits(p)

\* A span of two page numbers: numeral, hyphen, numeral.
IsSpan(p) ==
    /\ Cardinality({ i \in 1..Len(p) : p[i] = "-" }) = 1
    /\ IsNumeral(SubSeq(p, 1, FirstIndex(p, "-") - 1))
    /\ IsNumeral(SubSeq(p, FirstIndex(p, "-") + 1, Len(p)))

SpanStart(p) == DecVal(SubSeq(p, 1, FirstIndex(p, "-") - 1))

SpanEnd(p) == DecVal(SubSeq(p, FirstIndex(p, "-") + 1, Len(p)))

\* The parts of the range are in the variable parts.
PartsSet == currentTool = "split" /\ pc # "idle" /\ pc # "split" /\ AllLoadable

\* The parts that resolve to some index, in the order of the range.
NonEmptyParts == SelectSeq(parts, LAMBDA p : _parseRangePart(p, pageCount) # <<>>)

\* C5: for a non-empty range expression split returns, in the order of the
\* parts, one output per part whose resolved index list is not empty, and
\* output j holds the pages of its part in resolved order; a part that
\* resolves to the empty list gives no output.
C5_OneOutputPerNonEmptyPart ==
    (SplitSettled /\ ~Blank(range)) =>
        /\ result.status = "resolved"
        /\ Len(result.blobs) = Len(NonEmptyParts)
        /\ \A j \in 1..Len(NonEmptyParts) :
             result.blobs[j].pages =
                ExtractPages(_parseRangePart(NonEmptyParts[j], pageCount))

\* C6: for an absent, empty or all-blank range expression split returns
\* pageCount(source) outputs, the i-th holding one page, source page i.
C6_EveryPageAlone ==
    (SplitSettled /\ Blank(range)) =>
        /\ result.status = "resolved"
        /\ Len(result.blobs) = selectedFiles[1].pages
        /\ \A i \in 1..Len(result.blobs) : result.blobs[i].pages = << Page(1, i) >>

\* C6 happens: a blank, non-empty range on a source of several pages.
C6_Witness ==
    /\ SplitSettled /\ range.present /\ range.text = << " ", " " >>
    /\ selectedFiles[1].pages = 3
    /\ Len(result.blobs) = 3

\* C7: a page number n of 1..pageCount resolves to [n-1], a span a-b with
\* 1 <= a <= b <= pageCount to [a-1, ..., b-1]; split then extracts the
\* pages n, and a..b; "1-3,5" on 10 pages gives the pages 1,2,3 and the
\* page 5, "0,11" on 10 pages gives nothing.
C7_ZeroBasedIndices ==
    /\ PartsSet =>
         \A j \in 1..Len(parts) :
            LET p == parts[j]
                r == _parseRangePart(p, pageCount)
            IN  /\ (IsNumeral(p) /\ DecVal(p) \in 1..pageCount) => r = << Index(DecVal(p) - 1) >>
                /\ (IsSpan(p) /\ 1 <= SpanStart(p) /\ SpanStart(p) <= SpanEnd(p)
                        /\ SpanEnd(p) <= pageCount) =>
                     r = [ m \in 1..(SpanEnd(p) - SpanStart(p) + 1) |->
                             Index(SpanStart(p) - 1 + m - 1) ]
    /\ (SplitSettled /\ ~Blank(range)) =>
         /\ (\A j \in 1..Len(parts) : IsNumeral(parts[j]) /\ DecVal(parts[j]) \in 1..pageCount) =>
               result = Resolved([ j \in 1..Len(parts) |->
                                     PagesFromTo(DecVal(parts[j]), DecVal(parts[j])) ])
         /\ (\A j \in 1..Len(parts) :
                 /\ IsSpan(parts[j])
                 /\ 1 <= SpanStart(parts[j])
                 /\ SpanStart(parts[j]) <= SpanEnd(parts[j])
                 /\ SpanEnd(parts[j]) <= pageCount) =>
               result = Resolved([ j \in 1..Len(parts) |->
                                     PagesFromTo(SpanStart(parts[j]), SpanEnd(parts[j])) ])
         /\ (range.text = << "1", "-", "3", ",", "5" >> /\ pageCount = 10) =>
               result = Resolved(<< PagesFromTo(1, 3), PagesFromTo(5, 5) >>)
         /\ (range.text = << "0", ",", "1", "1" >> /\ pageCount = 10) =>
               result = Resolved(<<>>)

\* C7 happens: "1-3,5" on ten pages has given its two outputs.
C7_Witness ==
    /\ SplitSettled
    /\ range.text = << "1", "-", "3", ",", "5" >>
    /\ pageCount = 10
    /\ Len(result.blobs) = 2

\* A page number with a sign: a numeral, or a hyphen and a numeral.
IsSignedNumeral(p) == IsNumeral(p) \/ (p # <<>> /\ Head(p) = "-" /\ IsNumeral(Tail(p)))

SignedVal(p) == IF Head(p) = "-" THEN 0 - DecVal(Tail(p)) ELSE DecVal(p)

\* C8: for every part text every index resolved is an integer of
\* 0..pageCount-1, and a part that is one page number <= 0 or > pageCount
\* resolves to the empty list.
C8_IndicesArePageIndices ==
    PartsSet =>
        \A j \in 1..Len(parts) :
            LET p == parts[j]
                r == _parseRangePart(p, pageCount)
            IN  /\ \A m \in 1..Len(r) : IsInteger(r[m]) /\ r[m].n \in 0..(pageCount - 1)
                /\ (IsSignedNumeral(p) /\ (SignedVal(p) <= 0 \/ SignedVal(p) > pageCount)) =>
                      r = <<>>

\* A span of two unsigned decimal numbers, start-end, with start > end.
IsReversedSpan(p) ==
    /\ Cardinality({ i \in 1..Len(p) : p[i] = "-" }) = 1
    /\ LET left  == SubSeq(p, 1, FirstIndex(p, "-") - 1)
           right == SubSeq(p, FirstIndex(p, "-") + 1, Len(p))
       IN  /\ Trim(left) # <<>> /\ Trim(right) # <<>>
           /\ ~Number(left).nan /\ ~Number(right).nan
           /\ ~Leq(Number(left), Number(right))

\* C9: a span start-end with start > end resolves to the empty list, for
\* every page count, and gives no output of split.
C9_ReversedSpanIsEmpty ==
    /\ PartsSet =>
         \A j \in 1..Len(parts) :
            IsReversedSpan(parts[j]) => _parseRangePart(parts[j], pageCount) = <<>>
    /\ (SplitSettled /\ ~Blank(range)) =>
         /\ (\A j \in 1..Len(parts) : IsReversedSpan(parts[j])) => result = Resolved(<<>>)
         /\ result.status = "resolved" =>
              Len(result.blobs) <= Cardinality({ j \in 1..Len(parts) : ~IsReversedSpan(parts[j]) })

\* C9 happens: "2-1" on a source that has the pages 1 and 2 gave nothing.
C9_Witness ==
    /\ SplitSettled
    /\ parts = << << "2", "-", "1" >> >>
    /\ pageCount = 3
    /\ result = Resolved(<<>>)

----------------------------------------------------------------------------
(* a source that does not load *)

SomeUnloadable == \E i \in 1..Len(selectedFiles) : ~selectedFiles[i].ok

\* C10: if a source does not load, the call rejects, wherever the source
\* stands in the list of merge, and for split and compress; nothing built so
\* far is returned, and the app then shows no success and downloads nothing.
C10_UnloadableSourceFailsTheCall ==
    SomeUnloadable =>
        /\ result.status # "resolved"
        /\ result.blobs = <<>>
        /\ pc \in {"settled", "done"} => result = Rejected
        /\ pc # "timer"
        /\ resultBlob = Undefined
        /\ downloadBlob = Undefined
        /\ downloads = <<>>
        /\ view # "success"

\* C10 happens: the app ran a merge whose middle source did not load, after
\* a source whose pages were copied.
C10_Witness ==
    /\ currentTool = "merge" /\ viaApp /\ pc = "done"
    /\ Len(selectedFiles) = 3
    /\ selectedFiles[1].ok /\ ~selectedFiles[2].ok /\ selectedFiles[3].ok
    /\ Len(mergedPdf) = 2
    /\ result = Rejected

----------------------------------------------------------------------------
(* merge of no source *)

\* C11: merge of a list of no source, without toc, resolves with a document
\* of zero pages: no blank page is added when the destination is serialized.
C11_MergeOfNothingHasNoPage ==
    (currentTool = "merge" /\ selectedFiles = <<>> /\ ~options.toc
        /\ result.status # "pending") =>
        /\ result.status = "resolved"
        /\ result.blobs[1].pages = <<>>

----------------------------------------------------------------------------
(* the name merge draws *)

\* C12: the name merge draws for a source, in its TOC entry and in the
\* source-filename stamp of each of its pages, is the display name of the
\* source (the name of the file list, a name set by the inline rename
\* included); sources with equal display names still get one TOC entry
\* each, with a link of its own.
C12_MergeDrawsDisplayName ==
    (MergeSettled /\ result.status = "resolved") =>
        LET doc == result.blobs[1] IN
        /\ options.toc =>
             /\ Len(doc.tocText) = Len(selectedFiles)
             /\ Len(doc.annots) = Len(selectedFiles)
             /\ \A j \in 1..Len(selectedFiles) :
                  doc.tocText[j].title = selectedFiles[j].displayName
        /\ options.filename =>
             \A p \in 1..Len(doc.pages) :
                doc.pages[p].src \in 1..Len(selectedFiles) =>
                    doc.pages[p].filename = << selectedFiles[doc.pages[p].src].displayName >>

----------------------------------------------------------------------------
(* original page numbers *)

\* The pages of the destination and of the document returned.
MergePages == IF result.status = "resolved" THEN result.blobs[1].pages ELSE mergedPdf

\* C13: with origPages, the page copied from position i (1-based) of a
\* source with N pages is stamped "original - i/N", N the page count of that
\* source: the counter restarts at 1 for every source, whatever the other
\* options and the other sources; without origPages no page is stamped.
C13_OriginalPageNumbers ==
    currentTool = "merge" =>
        \A p \in 1..Len(MergePages) :
            LET page == MergePages[p] IN
            page.src \in 1..Len(selectedFiles) =>
                page.orig = IF options.origPages
                            THEN << page.idx, selectedFiles[page.src].pages >>
                            ELSE NoStamp

\* C13 happens: a merge with every option returned the pages of two sources
\* of different page counts, the second page of the first and the first
\* page of the second among them.
C13_Witness ==
    /\ currentTool = "merge" /\ result.status = "resolved"
    /\ options.origPages /\ options.toc /\ options.filename /\ options.finalPages
    /\ Len(selectedFiles) = 2
    /\ selectedFiles[1].pages = 2 /\ selectedFiles[2].pages = 3
    /\ result.blobs[1].pages[3].orig = << 2, 2 >>
    /\ result.blobs[1].pages[4].orig = << 1, 3 >>

----------------------------------------------------------------------------
(* compress *)

\* compress has returned a document: pdfDoc is the document it wrote and
\* content the document of the file it was given.
CompressReturned == currentTool = "compress" /\ result.status = "resolved"

\* The Names entry holds an embedded-file name registry.
HasEmbeddedFiles(doc) == doc.names \in {"dictEF", "refEF"}

\* C14: after compress with removeAttachments the output has no
\* embedded-file name registry and no catalog AF array, whichever of the
\* two the input had and whether the catalog holds its Names dictionary
\* directly or through an indirect reference.
C14_AttachmentsRemoved ==
    (CompressReturned /\ compressOptions.removeAttachments) =>
        /\ ~HasEmbeddedFiles(pdfDoc)
        /\ ~pdfDoc.af

\* The file of compress loads and the call has settled.
CompressSettled ==
    /\ currentTool = "compress" /\ selectedFiles # <<>> /\ selectedFiles[1].ok
    /\ result.status # "pending"

\* C15: when flatten is requested on a document without a form or with a
\* field that makes flattening throw, compress does not fail: it returns a
\* blob, the fields are left as they were, and the steps after flatten have
\* run (no outline tree under removeBookmarks, no AF array and no registry
\* in a directly held Names dictionary under removeAttachments).
C15_FlattenFailureIsSwallowed ==
    (CompressSettled /\ compressOptions.flatten /\ content.form \in {"none", "corrupt"}) =>
        /\ result.status = "resolved"
        /\ Len(result.blobs) = 1
        /\ pdfDoc.form = content.form
        /\ compressOptions.removeBookmarks => ~pdfDoc.outlines
        /\ compressOptions.removeAttachments => (~pdfDoc.af /\ pdfDoc.names # "dictEF")

\* C15 happens: the app compressed a document with a field that cannot be
\* flattened, an outline tree, embedded files and an AF array, with flatten,
\* removeBookmarks and removeAttachments, and showed the result.
C15_Witness ==
    /\ currentTool = "compress" /\ viaApp /\ pc = "done" /\ view = "success"
    /\ compressOptions.flatten
    /\ compressOptions.removeBookmarks /\ compressOptions.removeAttachments
    /\ content.form = "corrupt" /\ content.outlines
    /\ content.names = "dictEF" /\ content.af
    /\ pdfDoc.form = "corrupt" /\ ~pdfDoc.outlines
    /\ pdfDoc.names = "dict" /\ ~pdfDoc.af

\* What each option leaves of the structure it targets.
AnnotsLeft(doc, o) == IF o.removeAnnotations THEN {} ELSE doc.annots

FormLeft(doc, o) == IF o.flatten /\ doc.form = "fields" THEN "flattened" ELSE doc.form

OutlinesLeft(doc, o) == IF o.removeBookmarks THEN FALSE ELSE doc.outlines

NamesLeft(doc, o) == IF o.removeAttachments /\ doc.names = "dictEF" THEN "dict" ELSE doc.names

AfLeft(doc, o) == IF o.removeAttachments THEN FALSE ELSE doc.af

\* The structures other than the metadata are those their own options leave.
OthersIndependent ==
    /\ pdfDoc.annots = AnnotsLeft(content, compressOptions)
    /\ pdfDoc.form = FormLeft(content, compressOptions)
    /\ pdfDoc.outlines = OutlinesLeft(content, compressOptions)
    /\ pdfDoc.names = NamesLeft(content, compressOptions)
    /\ pdfDoc.af = AfLeft(content, compressOptions)
    /\ pdfDoc.pages = content.pages

\* C16: the options of compress are independent: the call never fails on a
\* loadable file, what the output holds of a structure is decided by the
\* flag of the option that targets it and by the input alone, an option
\* whose target is absent changes nothing, and a structure no requested
\* option targets is the structure of the input.
C16_OptionsIndependent ==
    CompressSettled =>
        /\ result.status = "resolved"
        /\ OthersIndependent
        /\ pdfDoc.meta = IF compressOptions.stripMetadata
                         THEN Meta("empty", "empty", "empty", Epoch, Epoch)
                         ELSE content.meta

\* compress has returned for the second time: content is the document the
\* first call returned and pdfDoc the document the second call returned.
CompressedTwice == CompressReturned /\ pc = "settled_again"

\* C17: compress is idempotent on structure: compress of the output of
\* compress, with the same options, returns a document with the structures
\* of that output: metadata, dates, annotation lists, form fields, outline
\* tree, embedded files and page count.
C17_CompressIdempotent ==
    CompressedTwice => pdfDoc = content

\* C18: after compress with stripMetadata the title, author, subject,
\* keywords, producer and creator of the output are empty and its creation
\* and modification dates are the epoch (time 0), whatever the metadata of
\* the input and whatever the time at which compress ran.
C18_MetadataStripped ==
    (CompressReturned /\ compressOptions.stripMetadata) =>
        /\ pdfDoc.meta.info = "empty"
        /\ pdfDoc.meta.producer = "empty"
        /\ pdfDoc.meta.creator = "empty"
        /\ pdfDoc.meta.created = Epoch
        /\ pdfDoc.meta.modified = Epoch

\* C18 happens: compress with stripMetadata returned a document for a file
\* that had metadata and dates.
C18_Witness ==
    /\ CompressReturned /\ pc = "settled"
    /\ compressOptions.stripMetadata
    /\ content.meta = SetMeta
    /\ pdfDoc.meta = Meta("empty", "empty", "empty", Epoch, Epoch)

\* C19: for every input and option set the output of compress has the
\* pages of the input, in their order: no page is added, not even a default
\* page to a document without pages, and none is removed; the save writes
\* object streams and regenerates no field appearance.
C19_PagesKept ==
    CompressSettled =>
        /\ result.status = "resolved"
        /\ Len(result.blobs) = 1
        /\ result.blobs[1].pages = [ i \in 1..content.pages |-> Page(1, i) ]
        /\ pdfDoc.pages = content.pages
        /\ pdfDoc.objStm
        /\ pdfDoc.form # "regenerated"

\* C19 happens: compress returned a document without pages for a file
\* without pages, with flatten requested on fields that were not flattened.
C19_Witness ==
    /\ CompressReturned /\ pc = "settled"
    /\ content.pages = 0
    /\ compressOptions.flatten /\ content.form = "corrupt"
    /\ result.blobs[1].pages = <<>>
    /\ pdfDoc.objStm

----------------------------------------------------------------------------
(* invocations side by side *)

\* The invocation as it was made.
Made(c) == [c EXCEPT !.pc = c.tool, !.result = Pending, !.frame = Fresh]

\* The invocation run alone, step after step, until it settles.
RECURSIVE RunAlone(_)
RunAlone(c) ==
    IF c.pc = "settled" THEN c
    ELSE LET s == StepOf(c, c.frame)
         IN  RunAlone([c EXCEPT !.pc = s.pc, !.result = s.result, !.frame = s.frame])

----------------------------------------------------------------------------
(* the download of a split *)

\* process has the outputs of a split and has built the blob to download.
SplitPackaged ==
    /\ currentTool = "split" /\ viaApp /\ pc \in {"timer", "done"}
    /\ result.status = "resolved"

\* C21: in process for split, more than one output is offered for download
\* as an archive with one entry per output, in output order, under a name
\* that ends in .zip; exactly one output is offered as that PDF.
C21_SplitDownload ==
    SplitPackaged =>
        /\ Len(result.blobs) > 1 =>
             /\ resultBlob = ZipBlob(result.blobs)
             /\ fileName.suffix = ".zip"
        /\ Len(result.blobs) = 1 => resultBlob = PdfBlob(result.blobs[1])
        /\ (pc = "done" /\ Len(result.blobs) >= 1) =>
             downloads = << [blob |-> resultBlob, name |-> fileName] >>

\* The names of the sources a merge has copied, in the order of the copies.
MergedNames == [ e \in 1..Len(tocEntries) |-> tocEntries[e].title ]

\* C22: the output of a merge started by process is made of the files the
\* list held when process started, in the order the list had then, whatever
\* is removed or reordered while the merge runs.
C22_MergeOfListAtStart ==
    (viaApp /\ currentTool = "merge" /\ result.status = "resolved") =>
        MergedNames = [ j \in 1..Len(filesAtStart) |-> filesAtStart[j].name ]

\* C23: in the merge tool, whatever UI updates came before, one drop of the
\* dragged file on the file list element moves that file to the end of the
\* list and keeps the order of the other files.
C23_ListDropMovesToEnd ==
    [][dropOnList =>
         selectedFiles' = Spliced(selectedFiles, draggedIndex)
                              \o << selectedFiles[draggedIndex] >>]_vars

\* C24: while the tool is split or compress the list holds at most one file.
C24_OneFileForSingleFileTools ==
    currentTool \in {"split", "compress"} => Len(selectedFiles) <= 1

\* The files at positions a..b of the list, the dragged file left out.
OthersFromTo(a, b) ==
    IF draggedIndex \in a..b
    THEN SubSeq(selectedFiles, a, draggedIndex - 1)
             \o SubSeq(selectedFiles, draggedIndex + 1, b)
    ELSE SubSeq(selectedFiles, a, b)

\* The list with the dragged file put at the insertion position the last
\* dragover on the hovered thumb indicated.
DroppedAtIndicated ==
    LET insertPos == InsertPos(hovered.index, hovered.isBeforeMiddle)
    IN  OthersFromTo(1, insertPos - 1) \o << selectedFiles[draggedIndex] >>
            \o OthersFromTo(insertPos, Len(selectedFiles))

\* C25: a drop on a thumb puts the dragged file at the insertion position
\* the last dragover on that thumb indicated, and a drop on the dragged
\* file's own thumb leaves the order of the list as it is.
C25_ThumbDropFollowsIndicator ==
    [][drop =>
         IF hovered.index = draggedIndex
         THEN selectedFiles' = selectedFiles
         ELSE selectedFiles' = DroppedAtIndicated]_vars

\* Every call of process that was started has settled.
AllSettled == \A r \in 1..Len(runs) : runs[r].stage # "await"

\* C26: once every started call of process has settled no progress timer
\* is running, also when process was started again while a call was in
\* flight; and no timer moves the bar below 100 once it is at 100.
C26_NoTimerLeftRunning ==
    /\ [](AllSettled => \A h \in 1..Len(intervals) : ~intervals[h].running)
    /\ [][\A h \in 1..Len(intervals) : (bar = 100 /\ tick(h)) => bar' = 100]_vars

\* C28: the result of a call of process during which the tool was switched
\* or the files were cleared is not shown in the success view and is not
\* downloaded.
C28_HiddenRunIsDiscarded ==
    \A r \in 1..Len(runs) : runs[r].hidden => runs[r].stage # "done"

\* C27: the success view is shown (and with it the toast that the file was
\* downloaded) only when process has a result blob and that blob was handed
\* to the browser; a split that resolves to no output does not show it.
C27_SuccessOnlyWithBlob ==
    (viaApp /\ view = "success") =>
        /\ downloadBlob # Undefined
        /\ downloads = << [blob |-> downloadBlob, name |-> fileName] >>

\* C29: whatever the number of merged sources, the line of every entry of
\* the TOC page and its link rectangle lie on the page: the y of the line
\* and the y of the rectangle are not below 0, and the rectangle ends below
\* the top of the page.
C29_TocEntriesOnThePage ==
    tocDrawn.idx > 0 =>
        /\ tocDrawn.yPos >= 0
        /\ LinkRect(tocDrawn.yPos).y >= 0
        /\ LinkRect(tocDrawn.yPos).y + LinkRect(tocDrawn.yPos).height <= PageHeight

\* The requests a cache of the origin has a response for.
CachedIn(name) == { c[2] : c \in { d \in cached : d[1] = name } }

\* C30: once the worker is activated the origin has the cache CACHE_NAME
\* and no other; a fetch event is answered from a cache when a cache has a
\* response for its request and from the network only when none has; and a
\* response of the network is put in the cache only when its status is 200
\* and its type is basic.
C30_WorkerCaches ==
    /\ [](worker = "activated" => cacheKeys = {CACHE_NAME})
    /\ [][fetch => LET e == fetches'[Len(fetches')]
                   IN  (e.from = "cache") <=>
                           (\E name \in CacheNames : e.request \in CachedIn(name))]_vars
    /\ [](\A f \in 1..Len(fetches) :
            /\ fetches[f].stage \in {"put", "stored"} =>
                  /\ fetches[f].from = "network"
                  /\ fetches[f].reply.status = 200
                  /\ fetches[f].reply.type = "basic"
            /\ fetches[f].from = "cache" => fetches[f].reply = NoReply)
    /\ [](\A request \in CachedIn(CACHE_NAME) \ ASSETS_TO_CACHE :
            \E f \in 1..Len(fetches) :
                /\ fetches[f].request = request
                /\ fetches[f].reply = [status |-> 200, type |-> "basic"])

\* The activated worker has answered one event from the cache, has stored
\* the response of another and has answered a third without storing it.
C30_Witness ==
    /\ worker = "activated"
    /\ cacheKeys = {CACHE_NAME}
    /\ \E f, g, h \in 1..Len(fetches) :
         /\ fetches[f].from = "cache"
         /\ fetches[g].stage = "stored" /\ fetches[g].request \in CachedIn(CACHE_NAME)
         /\ fetches[h].stage = "answered" /\ fetches[h].reply.status = 404
         /\ fetches[h].request \notin CachedIn(CACHE_NAME)

====
